---------------------------- MODULE Spec2Model ----------------------------
(***************************************************************************)
(* Model of utils/update_librechat_config.py (the apply run) and           *)
(* utils/test_update_config.py (the dry run): the catalog parser, the      *)
(* existence validator, the version, family-upgrade and replacement        *)
(* resolvers, and the two passes over the configuration document.          *)
(*                                                                         *)
(* Python values are represented as follows.                               *)
(*   str   a sequence of one-character strings, so that split, startswith, *)
(*         endswith, `in` and the ordering of str are computed             *)
(*   None  (where a str is expected) the value None below                  *)
(*   list  a sequence                                                      *)
(*   dict  with fixed string keys: a record whose DOMAIN is the key set;   *)
(*         the static tables and the catalog, whose iteration order        *)
(*         matters: a sequence of entries in insertion order               *)
(***************************************************************************)
EXTENDS Integers, Sequences, FiniteSets, TLC

\* ------------------------------------------------------------------------
\* Python str primitives
\* ------------------------------------------------------------------------

\* The characters that occur in identifiers, in code-point order.
Chars ==
  << "-", ".", "/",
     "0", "1", "2", "3", "4", "5", "6", "7", "8", "9", ":",
     "A", "B", "C", "D", "E", "F", "G", "H", "I", "J", "K", "L", "M",
     "N", "O", "P", "Q", "R", "S", "T", "U", "V", "W", "X", "Y", "Z",
     "a", "b", "c", "d", "e", "f", "g", "h", "i", "j", "k", "l", "m",
     "n", "o", "p", "q", "r", "s", "t", "u", "v", "w", "x", "y", "z" >>

\* Rank of a character in code-point order.
Ord(c) == CHOOSE i \in 1..Len(Chars) : Chars[i] = c

\* Python None in a position that otherwise holds a str.
None == << "None" >>

\* Python truth value of a str-or-None: None and '' are false.
Truthy(v) == v # None /\ v # << >>

SetMin(S) == CHOOSE m \in S : \A n \in S : m <= n

\* a > b on str: lexicographic by code point, a proper prefix is smaller.
StrGreater(a, b) ==
  LET n    == IF Len(a) < Len(b) THEN Len(a) ELSE Len(b)
      diff == { i \in 1..n : a[i] # b[i] }
  IN  IF diff = {} THEN Len(a) > Len(b)
      ELSE Ord(a[SetMin(diff)]) > Ord(b[SetMin(diff)])

\* s.startswith(p)
startswith(s, p) == Len(p) <= Len(s) /\ SubSeq(s, 1, Len(p)) = p

\* s.endswith(p)
endswith(s, p) == Len(p) <= Len(s) /\ SubSeq(s, Len(s) - Len(p) + 1, Len(s)) = p

\* p in s (substring test); '' is in every str
str_in(p, s) ==
  \E i \in 1..(Len(s) - Len(p) + 1) : SubSeq(s, i, i + Len(p) - 1) = p

\* c in s for a single character c
char_in(c, s) == \E i \in 1..Len(s) : s[i] = c

\* s.split(c) for a single character c: the list of the parts
RECURSIVE split(_, _)
split(s, c) ==
  IF ~char_in(c, s) THEN << s >>
  ELSE LET k == SetMin({ i \in 1..Len(s) : s[i] = c })
       IN  << SubSeq(s, 1, k - 1) >> \o split(SubSeq(s, k + 1, Len(s)), c)

\* s.strip(c): every leading and trailing c removed
strip(s, c) ==
  LET keep == { i \in 1..Len(s) : s[i] # c }
      SetMax(S) == CHOOSE m \in S : \A n \in S : m >= n
  IN  IF keep = {} THEN << >> ELSE SubSeq(s, SetMin(keep), SetMax(keep))

\* xs[:n]
take(xs, n) == SubSeq(xs, 1, IF Len(xs) < n THEN Len(xs) ELSE n)

\* the literals of the source
FREE   == <<":","f","r","e","e">>       \* ':free'
DASHES == <<"-","-","-">>               \* '---'
SLASH  == <<"/">>                       \* '/' appended by the f-strings

\* ------------------------------------------------------------------------
\* dict primitives
\* ------------------------------------------------------------------------

\* the static tables, a sequence of << key, value >>: k in t, t[k]
table_has(t, k) == \E i \in 1..Len(t) : t[i][1] = k
table_get(t, k) == t[CHOOSE i \in 1..Len(t) : t[i][1] = k][2]

\* the dicts of the configuration document, records: k in d, d[k] = v
has_key(d, k) == k \in DOMAIN d
set_key(d, k, v) == [x \in DOMAIN d \cup {k} |-> IF x = k THEN v ELSE d[x]]

\* ------------------------------------------------------------------------
\* The static tables
\* ------------------------------------------------------------------------
model_families ==
  << << <<"a","n","t","h","r","o","p","i","c","/","c","l","a","u","d","e","-","3",".","7","-","s","o","n","n","e","t">>,
        << <<"a","n","t","h","r","o","p","i","c","/","c","l","a","u","d","e","-","4","-","s","o","n","n","e","t">>, <<"a","n","t","h","r","o","p","i","c","/","c","l","a","u","d","e","-","4">> >> >>,  \* 'anthropic/claude-3.7-sonnet': ['anthropic/claude-4-sonnet', 'anthropic/claude-4']
     << <<"a","n","t","h","r","o","p","i","c","/","c","l","a","u","d","e","-","3",".","7","-","s","o","n","n","e","t",":","t","h","i","n","k","i","n","g">>,
        << <<"a","n","t","h","r","o","p","i","c","/","c","l","a","u","d","e","-","4","-","s","o","n","n","e","t",":","t","h","i","n","k","i","n","g">>, <<"a","n","t","h","r","o","p","i","c","/","c","l","a","u","d","e","-","4",":","t","h","i","n","k","i","n","g">> >> >>,  \* 'anthropic/claude-3.7-sonnet:thinking': ['anthropic/claude-4-sonnet:thinking', 'anthropic/claude-4:thinking']
     << <<"a","n","t","h","r","o","p","i","c","/","c","l","a","u","d","e","-","3",".","5","-","s","o","n","n","e","t">>,
        << <<"a","n","t","h","r","o","p","i","c","/","c","l","a","u","d","e","-","4","-","s","o","n","n","e","t">>, <<"a","n","t","h","r","o","p","i","c","/","c","l","a","u","d","e","-","4">> >> >>,  \* 'anthropic/claude-3.5-sonnet': ['anthropic/claude-4-sonnet', 'anthropic/claude-4']
     << <<"a","n","t","h","r","o","p","i","c","/","c","l","a","u","d","e","-","3",".","5","-","s","o","n","n","e","t",":","t","h","i","n","k","i","n","g">>,
        << <<"a","n","t","h","r","o","p","i","c","/","c","l","a","u","d","e","-","4","-","s","o","n","n","e","t",":","t","h","i","n","k","i","n","g">>, <<"a","n","t","h","r","o","p","i","c","/","c","l","a","u","d","e","-","4",":","t","h","i","n","k","i","n","g">> >> >>,  \* 'anthropic/claude-3.5-sonnet:thinking': ['anthropic/claude-4-sonnet:thinking', 'anthropic/claude-4:thinking']
     << <<"a","n","t","h","r","o","p","i","c","/","c","l","a","u","d","e","-","3","-","o","p","u","s">>,
        << <<"a","n","t","h","r","o","p","i","c","/","c","l","a","u","d","e","-","4","-","o","p","u","s">>, <<"a","n","t","h","r","o","p","i","c","/","c","l","a","u","d","e","-","4">> >> >>,  \* 'anthropic/claude-3-opus': ['anthropic/claude-4-opus', 'anthropic/claude-4']
     << <<"a","n","t","h","r","o","p","i","c","/","c","l","a","u","d","e","-","3","-","o","p","u","s",":","t","h","i","n","k","i","n","g">>,
        << <<"a","n","t","h","r","o","p","i","c","/","c","l","a","u","d","e","-","4","-","o","p","u","s",":","t","h","i","n","k","i","n","g">>, <<"a","n","t","h","r","o","p","i","c","/","c","l","a","u","d","e","-","4",":","t","h","i","n","k","i","n","g">> >> >>,  \* 'anthropic/claude-3-opus:thinking': ['anthropic/claude-4-opus:thinking', 'anthropic/claude-4:thinking']
     << <<"a","n","t","h","r","o","p","i","c","/","c","l","a","u","d","e","-","3","-","h","a","i","k","u">>,
        << <<"a","n","t","h","r","o","p","i","c","/","c","l","a","u","d","e","-","4","-","h","a","i","k","u">>, <<"a","n","t","h","r","o","p","i","c","/","c","l","a","u","d","e","-","4">> >> >>,  \* 'anthropic/claude-3-haiku': ['anthropic/claude-4-haiku', 'anthropic/claude-4']
     << <<"a","n","t","h","r","o","p","i","c","/","c","l","a","u","d","e","-","3","-","h","a","i","k","u",":","t","h","i","n","k","i","n","g">>,
        << <<"a","n","t","h","r","o","p","i","c","/","c","l","a","u","d","e","-","4","-","h","a","i","k","u",":","t","h","i","n","k","i","n","g">>, <<"a","n","t","h","r","o","p","i","c","/","c","l","a","u","d","e","-","4",":","t","h","i","n","k","i","n","g">> >> >>,  \* 'anthropic/claude-3-haiku:thinking': ['anthropic/claude-4-haiku:thinking', 'anthropic/claude-4:thinking']
     << <<"o","p","e","n","a","i","/","g","p","t","-","4">>,
        << <<"o","p","e","n","a","i","/","g","p","t","-","4","o">>, <<"o","p","e","n","a","i","/","g","p","t","-","4","o","-","l","a","t","e","s","t">> >> >>,  \* 'openai/gpt-4': ['openai/gpt-4o', 'openai/gpt-4o-latest']
     << <<"o","p","e","n","a","i","/","g","p","t","-","4","-","t","u","r","b","o">>,
        << <<"o","p","e","n","a","i","/","g","p","t","-","4","o">>, <<"o","p","e","n","a","i","/","g","p","t","-","4","o","-","l","a","t","e","s","t">> >> >>,  \* 'openai/gpt-4-turbo': ['openai/gpt-4o', 'openai/gpt-4o-latest']
     << <<"o","p","e","n","a","i","/","g","p","t","-","4","-","t","u","r","b","o","-","p","r","e","v","i","e","w">>,
        << <<"o","p","e","n","a","i","/","g","p","t","-","4","o">>, <<"o","p","e","n","a","i","/","g","p","t","-","4","o","-","l","a","t","e","s","t">> >> >>,  \* 'openai/gpt-4-turbo-preview': ['openai/gpt-4o', 'openai/gpt-4o-latest']
     << <<"o","p","e","n","a","i","/","g","p","t","-","4","-","1","1","0","6","-","p","r","e","v","i","e","w">>,
        << <<"o","p","e","n","a","i","/","g","p","t","-","4","o">>, <<"o","p","e","n","a","i","/","g","p","t","-","4","o","-","l","a","t","e","s","t">> >> >>,  \* 'openai/gpt-4-1106-preview': ['openai/gpt-4o', 'openai/gpt-4o-latest']
     << <<"o","p","e","n","a","i","/","g","p","t","-","4","-","0","1","2","5","-","p","r","e","v","i","e","w">>,
        << <<"o","p","e","n","a","i","/","g","p","t","-","4","o">>, <<"o","p","e","n","a","i","/","g","p","t","-","4","o","-","l","a","t","e","s","t">> >> >>,  \* 'openai/gpt-4-0125-preview': ['openai/gpt-4o', 'openai/gpt-4o-latest']
     << <<"o","p","e","n","a","i","/","g","p","t","-","4","-","0","6","1","3">>,
        << <<"o","p","e","n","a","i","/","g","p","t","-","4","o">>, <<"o","p","e","n","a","i","/","g","p","t","-","4","o","-","l","a","t","e","s","t">> >> >>,  \* 'openai/gpt-4-0613': ['openai/gpt-4o', 'openai/gpt-4o-latest']
     << <<"o","p","e","n","a","i","/","g","p","t","-","4","-","0","3","1","4">>,
        << <<"o","p","e","n","a","i","/","g","p","t","-","4","o">>, <<"o","p","e","n","a","i","/","g","p","t","-","4","o","-","l","a","t","e","s","t">> >> >>,  \* 'openai/gpt-4-0314': ['openai/gpt-4o', 'openai/gpt-4o-latest']
     << <<"o","p","e","n","a","i","/","g","p","t","-","3",".","5","-","t","u","r","b","o">>,
        << <<"o","p","e","n","a","i","/","g","p","t","-","4","o","-","m","i","n","i">>, <<"o","p","e","n","a","i","/","o","4","-","m","i","n","i">> >> >>,  \* 'openai/gpt-3.5-turbo': ['openai/gpt-4o-mini', 'openai/o4-mini']
     << <<"o","p","e","n","a","i","/","g","p","t","-","3",".","5","-","t","u","r","b","o","-","1","6","k">>,
        << <<"o","p","e","n","a","i","/","g","p","t","-","4","o","-","m","i","n","i">>, <<"o","p","e","n","a","i","/","o","4","-","m","i","n","i">> >> >>,  \* 'openai/gpt-3.5-turbo-16k': ['openai/gpt-4o-mini', 'openai/o4-mini']
     << <<"g","o","o","g","l","e","/","g","e","m","i","n","i","-","2",".","0">>,
        << <<"g","o","o","g","l","e","/","g","e","m","i","n","i","-","2",".","5","-","p","r","o">>, <<"g","o","o","g","l","e","/","g","e","m","i","n","i","-","2",".","5","-","p","r","o","-","e","x","p","-","0","3","-","2","5">> >> >>,  \* 'google/gemini-2.0': ['google/gemini-2.5-pro', 'google/gemini-2.5-pro-exp-03-25']
     << <<"g","o","o","g","l","e","/","g","e","m","i","n","i","-","1",".","5">>,
        << <<"g","o","o","g","l","e","/","g","e","m","i","n","i","-","2",".","5","-","p","r","o">>, <<"g","o","o","g","l","e","/","g","e","m","i","n","i","-","2",".","5","-","p","r","o","-","e","x","p","-","0","3","-","2","5">> >> >>,  \* 'google/gemini-1.5': ['google/gemini-2.5-pro', 'google/gemini-2.5-pro-exp-03-25']
     << <<"g","o","o","g","l","e","/","g","e","m","i","n","i","-","1",".","0">>,
        << <<"g","o","o","g","l","e","/","g","e","m","i","n","i","-","2",".","5","-","p","r","o">>, <<"g","o","o","g","l","e","/","g","e","m","i","n","i","-","2",".","5","-","p","r","o","-","e","x","p","-","0","3","-","2","5">> >> >>,  \* 'google/gemini-1.0': ['google/gemini-2.5-pro', 'google/gemini-2.5-pro-exp-03-25']
     << <<"d","e","e","p","s","e","e","k","/","d","e","e","p","s","e","e","k","-","c","h","a","t","-","v","2">>,
        << <<"d","e","e","p","s","e","e","k","/","d","e","e","p","s","e","e","k","-","c","h","a","t","-","v","3">>, <<"d","e","e","p","s","e","e","k","/","d","e","e","p","s","e","e","k","-","c","h","a","t","-","v","3","-","0","3","2","4">> >> >>,  \* 'deepseek/deepseek-chat-v2': ['deepseek/deepseek-chat-v3', 'deepseek/deepseek-chat-v3-0324']
     << <<"d","e","e","p","s","e","e","k","/","d","e","e","p","s","e","e","k","-","c","h","a","t","-","v","1">>,
        << <<"d","e","e","p","s","e","e","k","/","d","e","e","p","s","e","e","k","-","c","h","a","t","-","v","3">>, <<"d","e","e","p","s","e","e","k","/","d","e","e","p","s","e","e","k","-","c","h","a","t","-","v","3","-","0","3","2","4">> >> >>,  \* 'deepseek/deepseek-chat-v1': ['deepseek/deepseek-chat-v3', 'deepseek/deepseek-chat-v3-0324']
     << <<"x","-","a","i","/","g","r","o","k","-","2">>,
        << <<"x","-","a","i","/","g","r","o","k","-","3">>, <<"x","-","a","i","/","g","r","o","k","-","3","-","b","e","t","a">> >> >>,  \* 'x-ai/grok-2': ['x-ai/grok-3', 'x-ai/grok-3-beta']
     << <<"x","-","a","i","/","g","r","o","k","-","1">>,
        << <<"x","-","a","i","/","g","r","o","k","-","3">>, <<"x","-","a","i","/","g","r","o","k","-","3","-","b","e","t","a">> >> >>,  \* 'x-ai/grok-1': ['x-ai/grok-3', 'x-ai/grok-3-beta']
     << <<"m","i","s","t","r","a","l","a","i","/","m","i","s","t","r","a","l","-","7","b">>,
        << <<"m","i","s","t","r","a","l","a","i","/","m","i","s","t","r","a","l","-","8","x","7","b">>, <<"m","i","s","t","r","a","l","a","i","/","m","i","s","t","r","a","l","-","l","a","r","g","e">> >> >>,  \* 'mistralai/mistral-7b': ['mistralai/mistral-8x7b', 'mistralai/mistral-large']
     << <<"m","i","s","t","r","a","l","a","i","/","m","i","s","t","r","a","l","-","m","e","d","i","u","m">>,
        << <<"m","i","s","t","r","a","l","a","i","/","m","i","s","t","r","a","l","-","l","a","r","g","e">>, <<"m","i","s","t","r","a","l","a","i","/","m","i","s","t","r","a","l","-","l","a","r","g","e","-","l","a","t","e","s","t">> >> >>,  \* 'mistralai/mistral-medium': ['mistralai/mistral-large', 'mistralai/mistral-large-latest']
     << <<"m","e","t","a","-","l","l","a","m","a","/","l","l","a","m","a","-","2">>,
        << <<"m","e","t","a","-","l","l","a","m","a","/","l","l","a","m","a","-","3">>, <<"m","e","t","a","-","l","l","a","m","a","/","l","l","a","m","a","-","3",".","1">> >> >>,  \* 'meta-llama/llama-2': ['meta-llama/llama-3', 'meta-llama/llama-3.1']
     << <<"m","e","t","a","-","l","l","a","m","a","/","l","l","a","m","a","-","2","-","7","0","b">>,
        << <<"m","e","t","a","-","l","l","a","m","a","/","l","l","a","m","a","-","3",".","1","-","7","0","b">>, <<"m","e","t","a","-","l","l","a","m","a","/","l","l","a","m","a","-","3",".","1","-","4","0","5","b">> >> >>,  \* 'meta-llama/llama-2-70b': ['meta-llama/llama-3.1-70b', 'meta-llama/llama-3.1-405b']
     << <<"m","e","t","a","-","l","l","a","m","a","/","l","l","a","m","a","-","2","-","1","3","b">>,
        << <<"m","e","t","a","-","l","l","a","m","a","/","l","l","a","m","a","-","3",".","1","-","8","b">>, <<"m","e","t","a","-","l","l","a","m","a","/","l","l","a","m","a","-","3",".","1","-","7","0","b">> >> >>,  \* 'meta-llama/llama-2-13b': ['meta-llama/llama-3.1-8b', 'meta-llama/llama-3.1-70b']
     << <<"m","e","t","a","-","l","l","a","m","a","/","l","l","a","m","a","-","2","-","7","b">>,
        << <<"m","e","t","a","-","l","l","a","m","a","/","l","l","a","m","a","-","3",".","1","-","8","b">>, <<"m","e","t","a","-","l","l","a","m","a","/","l","l","a","m","a","-","3",".","1","-","7","0","b">> >> >> >>  \* 'meta-llama/llama-2-7b': ['meta-llama/llama-3.1-8b', 'meta-llama/llama-3.1-70b']

replacement_mappings ==
  << << <<"g","o","o","g","l","e","/","g","e","m","i","n","i","-","2",".","5","-","f","l","a","s","h","-","p","r","e","v","i","e","w">>,
        <<"g","o","o","g","l","e","/","g","e","m","i","n","i","-","2",".","5","-","p","r","o","-","e","x","p","-","0","3","-","2","5">> >>,  \* 'google/gemini-2.5-flash-preview': google/gemini-2.5-pro-exp-03-25
     << <<"g","o","o","g","l","e","/","g","e","m","i","n","i","-","2",".","5","-","f","l","a","s","h","-","p","r","e","v","i","e","w",":","t","h","i","n","k","i","n","g">>,
        <<"g","o","o","g","l","e","/","g","e","m","i","n","i","-","2",".","5","-","p","r","o","-","e","x","p","-","0","3","-","2","5">> >>,  \* 'google/gemini-2.5-flash-preview:thinking': google/gemini-2.5-pro-exp-03-25
     << <<"g","o","o","g","l","e","/","g","e","m","i","n","i","-","2",".","5","-","p","r","o","-","p","r","e","v","i","e","w","-","0","3","-","2","5">>,
        <<"g","o","o","g","l","e","/","g","e","m","i","n","i","-","2",".","5","-","p","r","o","-","e","x","p","-","0","3","-","2","5">> >>,  \* 'google/gemini-2.5-pro-preview-03-25': google/gemini-2.5-pro-exp-03-25
     << <<"g","o","o","g","l","e","/","g","e","m","i","n","i","-","2",".","5","-","p","r","o","-","p","r","e","v","i","e","w">>,
        <<"g","o","o","g","l","e","/","g","e","m","i","n","i","-","2",".","5","-","p","r","o","-","e","x","p","-","0","3","-","2","5">> >>,  \* 'google/gemini-2.5-pro-preview': google/gemini-2.5-pro-exp-03-25
     << <<"g","o","o","g","l","e","/","g","e","m","i","n","i","-","2",".","0","-","f","l","a","s","h">>,
        <<"g","o","o","g","l","e","/","g","e","m","i","n","i","-","2",".","5","-","p","r","o","-","e","x","p","-","0","3","-","2","5">> >>,  \* 'google/gemini-2.0-flash': google/gemini-2.5-pro-exp-03-25
     << <<"g","o","o","g","l","e","/","g","e","m","i","n","i","-","2",".","0","-","p","r","o">>,
        <<"g","o","o","g","l","e","/","g","e","m","i","n","i","-","2",".","5","-","p","r","o","-","e","x","p","-","0","3","-","2","5">> >>,  \* 'google/gemini-2.0-pro': google/gemini-2.5-pro-exp-03-25
     << <<"g","o","o","g","l","e","/","g","e","m","i","n","i","-","1",".","5","-","p","r","o">>,
        <<"g","o","o","g","l","e","/","g","e","m","i","n","i","-","2",".","5","-","p","r","o","-","e","x","p","-","0","3","-","2","5">> >>,  \* 'google/gemini-1.5-pro': google/gemini-2.5-pro-exp-03-25
     << <<"g","o","o","g","l","e","/","g","e","m","i","n","i","-","1",".","5","-","f","l","a","s","h">>,
        <<"g","o","o","g","l","e","/","g","e","m","i","n","i","-","2",".","5","-","p","r","o","-","e","x","p","-","0","3","-","2","5">> >>,  \* 'google/gemini-1.5-flash': google/gemini-2.5-pro-exp-03-25
     << <<"o","p","e","n","a","i","/","g","p","t","-","4","-","t","u","r","b","o">>,
        <<"o","p","e","n","a","i","/","g","p","t","-","4","o","-","l","a","t","e","s","t">> >>,  \* 'openai/gpt-4-turbo': openai/gpt-4o-latest
     << <<"o","p","e","n","a","i","/","g","p","t","-","4","-","t","u","r","b","o","-","p","r","e","v","i","e","w">>,
        <<"o","p","e","n","a","i","/","g","p","t","-","4","o","-","l","a","t","e","s","t">> >>,  \* 'openai/gpt-4-turbo-preview': openai/gpt-4o-latest
     << <<"o","p","e","n","a","i","/","g","p","t","-","4","-","1","1","0","6","-","p","r","e","v","i","e","w">>,
        <<"o","p","e","n","a","i","/","g","p","t","-","4","o","-","l","a","t","e","s","t">> >>,  \* 'openai/gpt-4-1106-preview': openai/gpt-4o-latest
     << <<"o","p","e","n","a","i","/","g","p","t","-","4","-","0","1","2","5","-","p","r","e","v","i","e","w">>,
        <<"o","p","e","n","a","i","/","g","p","t","-","4","o","-","l","a","t","e","s","t">> >>,  \* 'openai/gpt-4-0125-preview': openai/gpt-4o-latest
     << <<"o","p","e","n","a","i","/","g","p","t","-","4","-","0","6","1","3">>,
        <<"o","p","e","n","a","i","/","g","p","t","-","4","o","-","l","a","t","e","s","t">> >>,  \* 'openai/gpt-4-0613': openai/gpt-4o-latest
     << <<"o","p","e","n","a","i","/","g","p","t","-","4","-","0","3","1","4">>,
        <<"o","p","e","n","a","i","/","g","p","t","-","4","o","-","l","a","t","e","s","t">> >>,  \* 'openai/gpt-4-0314': openai/gpt-4o-latest
     << <<"o","p","e","n","a","i","/","g","p","t","-","3",".","5","-","t","u","r","b","o">>,
        <<"o","p","e","n","a","i","/","o","4","-","m","i","n","i">> >>,  \* 'openai/gpt-3.5-turbo': openai/o4-mini
     << <<"o","p","e","n","a","i","/","g","p","t","-","3",".","5","-","t","u","r","b","o","-","1","6","k">>,
        <<"o","p","e","n","a","i","/","o","4","-","m","i","n","i">> >>,  \* 'openai/gpt-3.5-turbo-16k': openai/o4-mini
     << <<"a","n","t","h","r","o","p","i","c","/","c","l","a","u","d","e","-","3",".","5","-","s","o","n","n","e","t">>,
        <<"a","n","t","h","r","o","p","i","c","/","c","l","a","u","d","e","-","3",".","7","-","s","o","n","n","e","t">> >>,  \* 'anthropic/claude-3.5-sonnet': anthropic/claude-3.7-sonnet
     << <<"a","n","t","h","r","o","p","i","c","/","c","l","a","u","d","e","-","3",".","5","-","s","o","n","n","e","t",":","t","h","i","n","k","i","n","g">>,
        <<"a","n","t","h","r","o","p","i","c","/","c","l","a","u","d","e","-","3",".","7","-","s","o","n","n","e","t",":","t","h","i","n","k","i","n","g">> >>,  \* 'anthropic/claude-3.5-sonnet:thinking': anthropic/claude-3.7-sonnet:thinking
     << <<"a","n","t","h","r","o","p","i","c","/","c","l","a","u","d","e","-","3","-","o","p","u","s">>,
        <<"a","n","t","h","r","o","p","i","c","/","c","l","a","u","d","e","-","3",".","7","-","s","o","n","n","e","t">> >>,  \* 'anthropic/claude-3-opus': anthropic/claude-3.7-sonnet
     << <<"a","n","t","h","r","o","p","i","c","/","c","l","a","u","d","e","-","3","-","o","p","u","s",":","t","h","i","n","k","i","n","g">>,
        <<"a","n","t","h","r","o","p","i","c","/","c","l","a","u","d","e","-","3",".","7","-","s","o","n","n","e","t",":","t","h","i","n","k","i","n","g">> >>,  \* 'anthropic/claude-3-opus:thinking': anthropic/claude-3.7-sonnet:thinking
     << <<"a","n","t","h","r","o","p","i","c","/","c","l","a","u","d","e","-","3","-","h","a","i","k","u">>,
        <<"a","n","t","h","r","o","p","i","c","/","c","l","a","u","d","e","-","3",".","7","-","s","o","n","n","e","t">> >>,  \* 'anthropic/claude-3-haiku': anthropic/claude-3.7-sonnet
     << <<"a","n","t","h","r","o","p","i","c","/","c","l","a","u","d","e","-","3","-","h","a","i","k","u",":","t","h","i","n","k","i","n","g">>,
        <<"a","n","t","h","r","o","p","i","c","/","c","l","a","u","d","e","-","3",".","7","-","s","o","n","n","e","t",":","t","h","i","n","k","i","n","g">> >>,  \* 'anthropic/claude-3-haiku:thinking': anthropic/claude-3.7-sonnet:thinking
     << <<"d","e","e","p","s","e","e","k","/","d","e","e","p","s","e","e","k","-","c","h","a","t","-","v","2">>,
        <<"d","e","e","p","s","e","e","k","/","d","e","e","p","s","e","e","k","-","c","h","a","t","-","v","3","-","0","3","2","4">> >>,  \* 'deepseek/deepseek-chat-v2': deepseek/deepseek-chat-v3-0324
     << <<"d","e","e","p","s","e","e","k","/","d","e","e","p","s","e","e","k","-","c","h","a","t","-","v","1">>,
        <<"d","e","e","p","s","e","e","k","/","d","e","e","p","s","e","e","k","-","c","h","a","t","-","v","3","-","0","3","2","4">> >>,  \* 'deepseek/deepseek-chat-v1': deepseek/deepseek-chat-v3-0324
     << <<"x","-","a","i","/","g","r","o","k","-","2">>,
        <<"x","-","a","i","/","g","r","o","k","-","3","-","b","e","t","a">> >>,  \* 'x-ai/grok-2': x-ai/grok-3-beta
     << <<"x","-","a","i","/","g","r","o","k","-","1">>,
        <<"x","-","a","i","/","g","r","o","k","-","3","-","b","e","t","a">> >>,  \* 'x-ai/grok-1': x-ai/grok-3-beta
     << <<"m","i","s","t","r","a","l","a","i","/","m","i","s","t","r","a","l","-","7","b">>,
        <<"m","i","s","t","r","a","l","a","i","/","m","i","s","t","r","a","l","-","l","a","r","g","e">> >>,  \* 'mistralai/mistral-7b': mistralai/mistral-large
     << <<"m","i","s","t","r","a","l","a","i","/","m","i","s","t","r","a","l","-","m","e","d","i","u","m">>,
        <<"m","i","s","t","r","a","l","a","i","/","m","i","s","t","r","a","l","-","l","a","r","g","e">> >>,  \* 'mistralai/mistral-medium': mistralai/mistral-large
     << <<"m","e","t","a","-","l","l","a","m","a","/","l","l","a","m","a","-","2">>,
        <<"m","e","t","a","-","l","l","a","m","a","/","l","l","a","m","a","-","3",".","1","-","8","b">> >>,  \* 'meta-llama/llama-2': meta-llama/llama-3.1-8b
     << <<"m","e","t","a","-","l","l","a","m","a","/","l","l","a","m","a","-","2","-","7","0","b">>,
        <<"m","e","t","a","-","l","l","a","m","a","/","l","l","a","m","a","-","3",".","1","-","7","0","b">> >>,  \* 'meta-llama/llama-2-70b': meta-llama/llama-3.1-70b
     << <<"m","e","t","a","-","l","l","a","m","a","/","l","l","a","m","a","-","2","-","1","3","b">>,
        <<"m","e","t","a","-","l","l","a","m","a","/","l","l","a","m","a","-","3",".","1","-","8","b">> >>,  \* 'meta-llama/llama-2-13b': meta-llama/llama-3.1-8b
     << <<"m","e","t","a","-","l","l","a","m","a","/","l","l","a","m","a","-","2","-","7","b">>,
        <<"m","e","t","a","-","l","l","a","m","a","/","l","l","a","m","a","-","3",".","1","-","8","b">> >> >>  \* 'meta-llama/llama-2-7b': meta-llama/llama-3.1-8b


\* ------------------------------------------------------------------------
\* The catalog: a sequence of [name |-> label, models |-> list of str],
\* in the insertion order of the dict built by the parser
\* ------------------------------------------------------------------------

\* index of the entry of category label c, 0 when c is not a key
cat_index(categories, c) ==
  IF \E i \in 1..Len(categories) : categories[i].name = c
  THEN CHOOSE i \in 1..Len(categories) : categories[i].name = c
  ELSE 0

\* one iteration of the parser's loop: (categories, current_category), item
parse_item_restart(st, item) ==
  IF startswith(item, DASHES) /\ endswith(item, DASHES)
  THEN [st EXCEPT !.current_category = strip(item, "-")]
  ELSE IF Truthy(st.current_category) /\ ~startswith(item, DASHES)
  THEN LET k == cat_index(st.categories, st.current_category)
       IN  IF k = 0
           THEN [st EXCEPT !.categories =
                   Append(@, [name |-> st.current_category, models |-> << item >>])]
           ELSE [st EXCEPT !.categories[k].models = << item >>]
  ELSE st

parse_item(st, item) ==
  IF startswith(item, DASHES) /\ endswith(item, DASHES)
  THEN [st EXCEPT !.current_category = strip(item, "-")]
  ELSE IF Truthy(st.current_category) /\ ~startswith(item, DASHES)
  THEN LET k == cat_index(st.categories, st.current_category)
       IN  IF k = 0
           THEN [st EXCEPT !.categories =
                   Append(@, [name |-> st.current_category, models |-> << item >>])]
           ELSE [st EXCEPT !.categories[k].models = Append(@, item)]
  ELSE st

RECURSIVE parse_loop(_, _)
parse_loop(st, models_list) ==
  IF models_list = << >> THEN st
  ELSE parse_loop(parse_item(st, Head(models_list)), Tail(models_list))

extract_models_by_category(models_list) ==
  parse_loop([categories |-> << >>, current_category |-> None], models_list).categories

\* for category, models in categories.items(): for model in models:
\* the entries in the order the nested loops visit them
RECURSIVE scan(_)
scan(categories) ==
  IF categories = << >> THEN << >>
  ELSE Head(categories).models \o scan(Tail(categories))

\* model.endswith(':free')
is_free_never(model) == FALSE

is_free(model) == endswith(model, FREE)

\* m.split(':')[0] if ':' in m else m
base_of(m) == IF char_in(":", m) THEN split(m, ":")[1] ELSE m

\* model_base == base_model
same_base_prefix(model, base_model) == startswith(model, base_model)

same_base(model, base_model) == base_of(model) = base_model

\* not latest_model or model > latest_model
is_newer_reversed(model, latest_model) ==
  ~Truthy(latest_model) \/ StrGreater(latest_model, model)

is_newer(model, latest_model) ==
  ~Truthy(latest_model) \/ StrGreater(model, latest_model)

\* ------------------------------------------------------------------------
\* find_newer_model_family
\* ------------------------------------------------------------------------

\* the inner loops: some entry that is not ':free' equals newer_model
family_hit_always(newer_model, categories) == TRUE

family_hit(newer_model, categories) ==
  \E i \in 1..Len(scan(categories)) :
     ~is_free(scan(categories)[i]) /\ scan(categories)[i] = newer_model

\* for newer_model in model_families[current_model]: first hit is returned
family_loop_catalog_first(candidates, categories) ==
  LET ms   == scan(categories)
      hits == { k \in 1..Len(ms) :
                  ~is_free(ms[k]) /\ \E c \in 1..Len(candidates) : candidates[c] = ms[k] }
  IN  IF hits = {} THEN None ELSE ms[SetMin(hits)]

RECURSIVE family_loop(_, _)
family_loop(candidates, categories) ==
  IF candidates = << >> THEN None
  ELSE IF family_hit(Head(candidates), categories) THEN Head(candidates)
  ELSE family_loop(Tail(candidates), categories)

find_newer_model_family(current_model, categories) ==
  IF table_has(model_families, current_model)
  THEN family_loop(table_get(model_families, current_model), categories)
  ELSE None

\* ------------------------------------------------------------------------
\* find_latest_model_version
\* ------------------------------------------------------------------------
RECURSIVE latest_loop(_, _, _)
latest_loop(ms, base_model, latest_model) ==
  IF ms = << >> THEN latest_model
  ELSE LET model == Head(ms)
       IN  IF is_free(model)
           THEN latest_loop(Tail(ms), base_model, latest_model)
           ELSE IF same_base(model, base_model) /\ is_newer(model, latest_model)
           THEN latest_loop(Tail(ms), base_model, model)
           ELSE latest_loop(Tail(ms), base_model, latest_model)

find_latest_model_version_other(current_model, categories) ==
  LET others       == SelectSeq(scan(categories), LAMBDA m : m # current_model)
      latest_model == latest_loop(others, base_of(current_model), None)
  IN  IF ~Truthy(latest_model)
      THEN find_newer_model_family(current_model, categories)
      ELSE latest_model

find_latest_model_version_family_first(current_model, categories) ==
  LET base_model   == base_of(current_model)
      latest_model == latest_loop(scan(categories), base_model, None)
      newer_family == find_newer_model_family(current_model, categories)
  IN  IF Truthy(newer_family) THEN newer_family
      ELSE latest_model

find_latest_model_version(current_model, categories) ==
  LET base_model   == base_of(current_model)
      latest_model == latest_loop(scan(categories), base_model, None)
  IN  IF ~Truthy(latest_model)
      THEN find_newer_model_family(current_model, categories)
      ELSE latest_model

\* ------------------------------------------------------------------------
\* validate_model_exists
\* ------------------------------------------------------------------------
RECURSIVE exists_loop(_, _)
exists_loop(ms, model_name) ==
  IF ms = << >> THEN FALSE
  ELSE IF Head(ms) = model_name THEN TRUE
  ELSE exists_loop(Tail(ms), model_name)

validate_model_exists_skip_free(model_name, categories) ==
  exists_loop(SelectSeq(scan(categories), LAMBDA m : ~is_free(m)), model_name)

validate_model_exists(model_name, categories) ==
  exists_loop(scan(categories), model_name)

\* ------------------------------------------------------------------------
\* find_valid_replacement_model
\* ------------------------------------------------------------------------

\* step 1: the direct mapping, returned only when it is in the catalog
direct_replacement_unvalidated(invalid_model, categories) ==
  IF table_has(replacement_mappings, invalid_model)
  THEN table_get(replacement_mappings, invalid_model)
  ELSE None

direct_replacement(invalid_model, categories) ==
  IF table_has(replacement_mappings, invalid_model)
     /\ validate_model_exists(table_get(replacement_mappings, invalid_model), categories)
  THEN table_get(replacement_mappings, invalid_model)
  ELSE None

\* any(part in model for part in invalid_parts[:2])
shares_part_any(model, invalid_parts) ==
  \E k \in 1..Len(invalid_parts) : str_in(invalid_parts[k], model)

shares_part(model, invalid_parts) ==
  \E k \in 1..Len(take(invalid_parts, 2)) : str_in(invalid_parts[k], model)

\* step 2: the first same-provider entry that shares a part with model_name
RECURSIVE similar_loop(_, _, _)
similar_loop(ms, provider, model_name) ==
  IF ms = << >> THEN None
  ELSE LET model == Head(ms)
       IN  IF ~is_free(model)
              /\ startswith(model, provider \o SLASH)
              /\ shares_part(model, split(model_name, "-"))
           THEN model
           ELSE similar_loop(Tail(ms), provider, model_name)

\* step 3: the first entry of the same provider
RECURSIVE fallback_loop_with_free(_, _)
fallback_loop_with_free(ms, provider) ==
  IF ms = << >> THEN None
  ELSE IF startswith(Head(ms), provider \o SLASH)
  THEN Head(ms)
  ELSE fallback_loop_with_free(Tail(ms), provider)

RECURSIVE fallback_loop(_, _)
fallback_loop(ms, provider) ==
  IF ms = << >> THEN None
  ELSE IF ~is_free(Head(ms)) /\ startswith(Head(ms), provider \o SLASH)
  THEN Head(ms)
  ELSE fallback_loop(Tail(ms), provider)

find_valid_replacement_model(invalid_model, categories) ==
  LET direct  == direct_replacement(invalid_model, categories)
      parts   == split(invalid_model, "/")
      similar == IF Len(parts) = 2
                 THEN similar_loop(scan(categories), parts[1], parts[2])
                 ELSE None
  IN  IF direct # None THEN direct
      ELSE IF similar # None THEN similar
      ELSE fallback_loop(scan(categories), parts[1])

dry_model_families ==
  << << <<"a","n","t","h","r","o","p","i","c","/","c","l","a","u","d","e","-","3",".","7","-","s","o","n","n","e","t">>,
        << <<"a","n","t","h","r","o","p","i","c","/","c","l","a","u","d","e","-","4","-","s","o","n","n","e","t">>, <<"a","n","t","h","r","o","p","i","c","/","c","l","a","u","d","e","-","4">> >> >>,  \* 'anthropic/claude-3.7-sonnet': ['anthropic/claude-4-sonnet', 'anthropic/claude-4']
     << <<"a","n","t","h","r","o","p","i","c","/","c","l","a","u","d","e","-","3",".","7","-","s","o","n","n","e","t",":","t","h","i","n","k","i","n","g">>,
        << <<"a","n","t","h","r","o","p","i","c","/","c","l","a","u","d","e","-","4","-","s","o","n","n","e","t",":","t","h","i","n","k","i","n","g">>, <<"a","n","t","h","r","o","p","i","c","/","c","l","a","u","d","e","-","4",":","t","h","i","n","k","i","n","g">> >> >>,  \* 'anthropic/claude-3.7-sonnet:thinking': ['anthropic/claude-4-sonnet:thinking', 'anthropic/claude-4:thinking']
     << <<"a","n","t","h","r","o","p","i","c","/","c","l","a","u","d","e","-","3",".","5","-","s","o","n","n","e","t">>,
        << <<"a","n","t","h","r","o","p","i","c","/","c","l","a","u","d","e","-","4","-","s","o","n","n","e","t">>, <<"a","n","t","h","r","o","p","i","c","/","c","l","a","u","d","e","-","4">> >> >>,  \* 'anthropic/claude-3.5-sonnet': ['anthropic/claude-4-sonnet', 'anthropic/claude-4']
     << <<"a","n","t","h","r","o","p","i","c","/","c","l","a","u","d","e","-","3",".","5","-","s","o","n","n","e","t",":","t","h","i","n","k","i","n","g">>,
        << <<"a","n","t","h","r","o","p","i","c","/","c","l","a","u","d","e","-","4","-","s","o","n","n","e","t",":","t","h","i","n","k","i","n","g">>, <<"a","n","t","h","r","o","p","i","c","/","c","l","a","u","d","e","-","4",":","t","h","i","n","k","i","n","g">> >> >>,  \* 'anthropic/claude-3.5-sonnet:thinking': ['anthropic/claude-4-sonnet:thinking', 'anthropic/claude-4:thinking']
     << <<"a","n","t","h","r","o","p","i","c","/","c","l","a","u","d","e","-","3","-","o","p","u","s">>,
        << <<"a","n","t","h","r","o","p","i","c","/","c","l","a","u","d","e","-","4","-","o","p","u","s">>, <<"a","n","t","h","r","o","p","i","c","/","c","l","a","u","d","e","-","4">> >> >>,  \* 'anthropic/claude-3-opus': ['anthropic/claude-4-opus', 'anthropic/claude-4']
     << <<"a","n","t","h","r","o","p","i","c","/","c","l","a","u","d","e","-","3","-","o","p","u","s",":","t","h","i","n","k","i","n","g">>,
        << <<"a","n","t","h","r","o","p","i","c","/","c","l","a","u","d","e","-","4","-","o","p","u","s",":","t","h","i","n","k","i","n","g">>, <<"a","n","t","h","r","o","p","i","c","/","c","l","a","u","d","e","-","4",":","t","h","i","n","k","i","n","g">> >> >>,  \* 'anthropic/claude-3-opus:thinking': ['anthropic/claude-4-opus:thinking', 'anthropic/claude-4:thinking']
     << <<"a","n","t","h","r","o","p","i","c","/","c","l","a","u","d","e","-","3","-","h","a","i","k","u">>,
        << <<"a","n","t","h","r","o","p","i","c","/","c","l","a","u","d","e","-","4","-","h","a","i","k","u">>, <<"a","n","t","h","r","o","p","i","c","/","c","l","a","u","d","e","-","4">> >> >>,  \* 'anthropic/claude-3-haiku': ['anthropic/claude-4-haiku', 'anthropic/claude-4']
     << <<"a","n","t","h","r","o","p","i","c","/","c","l","a","u","d","e","-","3","-","h","a","i","k","u",":","t","h","i","n","k","i","n","g">>,
        << <<"a","n","t","h","r","o","p","i","c","/","c","l","a","u","d","e","-","4","-","h","a","i","k","u",":","t","h","i","n","k","i","n","g">>, <<"a","n","t","h","r","o","p","i","c","/","c","l","a","u","d","e","-","4",":","t","h","i","n","k","i","n","g">> >> >>,  \* 'anthropic/claude-3-haiku:thinking': ['anthropic/claude-4-haiku:thinking', 'anthropic/claude-4:thinking']
     << <<"o","p","e","n","a","i","/","g","p","t","-","4">>,
        << <<"o","p","e","n","a","i","/","g","p","t","-","4","o">>, <<"o","p","e","n","a","i","/","g","p","t","-","4","o","-","l","a","t","e","s","t">> >> >>,  \* 'openai/gpt-4': ['openai/gpt-4o', 'openai/gpt-4o-latest']
     << <<"o","p","e","n","a","i","/","g","p","t","-","4","-","t","u","r","b","o">>,
        << <<"o","p","e","n","a","i","/","g","p","t","-","4","o">>, <<"o","p","e","n","a","i","/","g","p","t","-","4","o","-","l","a","t","e","s","t">> >> >>,  \* 'openai/gpt-4-turbo': ['openai/gpt-4o', 'openai/gpt-4o-latest']
     << <<"o","p","e","n","a","i","/","g","p","t","-","4","-","t","u","r","b","o","-","p","r","e","v","i","e","w">>,
        << <<"o","p","e","n","a","i","/","g","p","t","-","4","o">>, <<"o","p","e","n","a","i","/","g","p","t","-","4","o","-","l","a","t","e","s","t">> >> >>,  \* 'openai/gpt-4-turbo-preview': ['openai/gpt-4o', 'openai/gpt-4o-latest']
     << <<"o","p","e","n","a","i","/","g","p","t","-","4","-","1","1","0","6","-","p","r","e","v","i","e","w">>,
        << <<"o","p","e","n","a","i","/","g","p","t","-","4","o">>, <<"o","p","e","n","a","i","/","g","p","t","-","4","o","-","l","a","t","e","s","t">> >> >>,  \* 'openai/gpt-4-1106-preview': ['openai/gpt-4o', 'openai/gpt-4o-latest']
     << <<"o","p","e","n","a","i","/","g","p","t","-","4","-","0","1","2","5","-","p","r","e","v","i","e","w">>,
        << <<"o","p","e","n","a","i","/","g","p","t","-","4","o">>, <<"o","p","e","n","a","i","/","g","p","t","-","4","o","-","l","a","t","e","s","t">> >> >>,  \* 'openai/gpt-4-0125-preview': ['openai/gpt-4o', 'openai/gpt-4o-latest']
     << <<"o","p","e","n","a","i","/","g","p","t","-","4","-","0","6","1","3">>,
        << <<"o","p","e","n","a","i","/","g","p","t","-","4","o">>, <<"o","p","e","n","a","i","/","g","p","t","-","4","o","-","l","a","t","e","s","t">> >> >>,  \* 'openai/gpt-4-0613': ['openai/gpt-4o', 'openai/gpt-4o-latest']
     << <<"o","p","e","n","a","i","/","g","p","t","-","4","-","0","3","1","4">>,
        << <<"o","p","e","n","a","i","/","g","p","t","-","4","o">>, <<"o","p","e","n","a","i","/","g","p","t","-","4","o","-","l","a","t","e","s","t">> >> >>,  \* 'openai/gpt-4-0314': ['openai/gpt-4o', 'openai/gpt-4o-latest']
     << <<"o","p","e","n","a","i","/","g","p","t","-","3",".","5","-","t","u","r","b","o">>,
        << <<"o","p","e","n","a","i","/","g","p","t","-","4","o","-","m","i","n","i">>, <<"o","p","e","n","a","i","/","o","4","-","m","i","n","i">> >> >>,  \* 'openai/gpt-3.5-turbo': ['openai/gpt-4o-mini', 'openai/o4-mini']
     << <<"o","p","e","n","a","i","/","g","p","t","-","3",".","5","-","t","u","r","b","o","-","1","6","k">>,
        << <<"o","p","e","n","a","i","/","g","p","t","-","4","o","-","m","i","n","i">>, <<"o","p","e","n","a","i","/","o","4","-","m","i","n","i">> >> >>,  \* 'openai/gpt-3.5-turbo-16k': ['openai/gpt-4o-mini', 'openai/o4-mini']
     << <<"g","o","o","g","l","e","/","g","e","m","i","n","i","-","2",".","0">>,
        << <<"g","o","o","g","l","e","/","g","e","m","i","n","i","-","2",".","5","-","p","r","o">>, <<"g","o","o","g","l","e","/","g","e","m","i","n","i","-","2",".","5","-","p","r","o","-","e","x","p","-","0","3","-","2","5">> >> >>,  \* 'google/gemini-2.0': ['google/gemini-2.5-pro', 'google/gemini-2.5-pro-exp-03-25']
     << <<"g","o","o","g","l","e","/","g","e","m","i","n","i","-","1",".","5">>,
        << <<"g","o","o","g","l","e","/","g","e","m","i","n","i","-","2",".","5","-","p","r","o">>, <<"g","o","o","g","l","e","/","g","e","m","i","n","i","-","2",".","5","-","p","r","o","-","e","x","p","-","0","3","-","2","5">> >> >>,  \* 'google/gemini-1.5': ['google/gemini-2.5-pro', 'google/gemini-2.5-pro-exp-03-25']
     << <<"g","o","o","g","l","e","/","g","e","m","i","n","i","-","1",".","0">>,
        << <<"g","o","o","g","l","e","/","g","e","m","i","n","i","-","2",".","5","-","p","r","o">>, <<"g","o","o","g","l","e","/","g","e","m","i","n","i","-","2",".","5","-","p","r","o","-","e","x","p","-","0","3","-","2","5">> >> >>,  \* 'google/gemini-1.0': ['google/gemini-2.5-pro', 'google/gemini-2.5-pro-exp-03-25']
     << <<"d","e","e","p","s","e","e","k","/","d","e","e","p","s","e","e","k","-","c","h","a","t","-","v","2">>,
        << <<"d","e","e","p","s","e","e","k","/","d","e","e","p","s","e","e","k","-","c","h","a","t","-","v","3">>, <<"d","e","e","p","s","e","e","k","/","d","e","e","p","s","e","e","k","-","c","h","a","t","-","v","3","-","0","3","2","4">> >> >>,  \* 'deepseek/deepseek-chat-v2': ['deepseek/deepseek-chat-v3', 'deepseek/deepseek-chat-v3-0324']
     << <<"d","e","e","p","s","e","e","k","/","d","e","e","p","s","e","e","k","-","c","h","a","t","-","v","1">>,
        << <<"d","e","e","p","s","e","e","k","/","d","e","e","p","s","e","e","k","-","c","h","a","t","-","v","3">>, <<"d","e","e","p","s","e","e","k","/","d","e","e","p","s","e","e","k","-","c","h","a","t","-","v","3","-","0","3","2","4">> >> >>,  \* 'deepseek/deepseek-chat-v1': ['deepseek/deepseek-chat-v3', 'deepseek/deepseek-chat-v3-0324']
     << <<"x","-","a","i","/","g","r","o","k","-","2">>,
        << <<"x","-","a","i","/","g","r","o","k","-","3">>, <<"x","-","a","i","/","g","r","o","k","-","3","-","b","e","t","a">> >> >>,  \* 'x-ai/grok-2': ['x-ai/grok-3', 'x-ai/grok-3-beta']
     << <<"x","-","a","i","/","g","r","o","k","-","1">>,
        << <<"x","-","a","i","/","g","r","o","k","-","3">>, <<"x","-","a","i","/","g","r","o","k","-","3","-","b","e","t","a">> >> >>,  \* 'x-ai/grok-1': ['x-ai/grok-3', 'x-ai/grok-3-beta']
     << <<"m","i","s","t","r","a","l","a","i","/","m","i","s","t","r","a","l","-","7","b">>,
        << <<"m","i","s","t","r","a","l","a","i","/","m","i","s","t","r","a","l","-","8","x","7","b">>, <<"m","i","s","t","r","a","l","a","i","/","m","i","s","t","r","a","l","-","l","a","r","g","e">> >> >>,  \* 'mistralai/mistral-7b': ['mistralai/mistral-8x7b', 'mistralai/mistral-large']
     << <<"m","i","s","t","r","a","l","a","i","/","m","i","s","t","r","a","l","-","m","e","d","i","u","m">>,
        << <<"m","i","s","t","r","a","l","a","i","/","m","i","s","t","r","a","l","-","l","a","r","g","e">>, <<"m","i","s","t","r","a","l","a","i","/","m","i","s","t","r","a","l","-","l","a","r","g","e","-","l","a","t","e","s","t">> >> >>,  \* 'mistralai/mistral-medium': ['mistralai/mistral-large', 'mistralai/mistral-large-latest']
     << <<"m","e","t","a","-","l","l","a","m","a","/","l","l","a","m","a","-","2">>,
        << <<"m","e","t","a","-","l","l","a","m","a","/","l","l","a","m","a","-","3">>, <<"m","e","t","a","-","l","l","a","m","a","/","l","l","a","m","a","-","3",".","1">> >> >>,  \* 'meta-llama/llama-2': ['meta-llama/llama-3', 'meta-llama/llama-3.1']
     << <<"m","e","t","a","-","l","l","a","m","a","/","l","l","a","m","a","-","2","-","7","0","b">>,
        << <<"m","e","t","a","-","l","l","a","m","a","/","l","l","a","m","a","-","3",".","1","-","7","0","b">>, <<"m","e","t","a","-","l","l","a","m","a","/","l","l","a","m","a","-","3",".","1","-","4","0","5","b">> >> >>,  \* 'meta-llama/llama-2-70b': ['meta-llama/llama-3.1-70b', 'meta-llama/llama-3.1-405b']
     << <<"m","e","t","a","-","l","l","a","m","a","/","l","l","a","m","a","-","2","-","1","3","b">>,
        << <<"m","e","t","a","-","l","l","a","m","a","/","l","l","a","m","a","-","3",".","1","-","8","b">>, <<"m","e","t","a","-","l","l","a","m","a","/","l","l","a","m","a","-","3",".","1","-","7","0","b">> >> >>,  \* 'meta-llama/llama-2-13b': ['meta-llama/llama-3.1-8b', 'meta-llama/llama-3.1-70b']
     << <<"m","e","t","a","-","l","l","a","m","a","/","l","l","a","m","a","-","2","-","7","b">>,
        << <<"m","e","t","a","-","l","l","a","m","a","/","l","l","a","m","a","-","3",".","1","-","8","b">>, <<"m","e","t","a","-","l","l","a","m","a","/","l","l","a","m","a","-","3",".","1","-","7","0","b">> >> >> >>  \* 'meta-llama/llama-2-7b': ['meta-llama/llama-3.1-8b', 'meta-llama/llama-3.1-70b']

dry_replacement_mappings ==
  << << <<"g","o","o","g","l","e","/","g","e","m","i","n","i","-","2",".","5","-","f","l","a","s","h","-","p","r","e","v","i","e","w">>,
        <<"g","o","o","g","l","e","/","g","e","m","i","n","i","-","2",".","5","-","p","r","o","-","e","x","p","-","0","3","-","2","5">> >>,  \* 'google/gemini-2.5-flash-preview': google/gemini-2.5-pro-exp-03-25
     << <<"g","o","o","g","l","e","/","g","e","m","i","n","i","-","2",".","5","-","f","l","a","s","h","-","p","r","e","v","i","e","w",":","t","h","i","n","k","i","n","g">>,
        <<"g","o","o","g","l","e","/","g","e","m","i","n","i","-","2",".","5","-","p","r","o","-","e","x","p","-","0","3","-","2","5">> >>,  \* 'google/gemini-2.5-flash-preview:thinking': google/gemini-2.5-pro-exp-03-25
     << <<"g","o","o","g","l","e","/","g","e","m","i","n","i","-","2",".","5","-","p","r","o","-","p","r","e","v","i","e","w","-","0","3","-","2","5">>,
        <<"g","o","o","g","l","e","/","g","e","m","i","n","i","-","2",".","5","-","p","r","o","-","e","x","p","-","0","3","-","2","5">> >>,  \* 'google/gemini-2.5-pro-preview-03-25': google/gemini-2.5-pro-exp-03-25
     << <<"g","o","o","g","l","e","/","g","e","m","i","n","i","-","2",".","5","-","p","r","o","-","p","r","e","v","i","e","w">>,
        <<"g","o","o","g","l","e","/","g","e","m","i","n","i","-","2",".","5","-","p","r","o","-","e","x","p","-","0","3","-","2","5">> >>,  \* 'google/gemini-2.5-pro-preview': google/gemini-2.5-pro-exp-03-25
     << <<"g","o","o","g","l","e","/","g","e","m","i","n","i","-","2",".","0","-","f","l","a","s","h">>,
        <<"g","o","o","g","l","e","/","g","e","m","i","n","i","-","2",".","5","-","p","r","o","-","e","x","p","-","0","3","-","2","5">> >>,  \* 'google/gemini-2.0-flash': google/gemini-2.5-pro-exp-03-25
     << <<"g","o","o","g","l","e","/","g","e","m","i","n","i","-","2",".","0","-","p","r","o">>,
        <<"g","o","o","g","l","e","/","g","e","m","i","n","i","-","2",".","5","-","p","r","o","-","e","x","p","-","0","3","-","2","5">> >>,  \* 'google/gemini-2.0-pro': google/gemini-2.5-pro-exp-03-25
     << <<"g","o","o","g","l","e","/","g","e","m","i","n","i","-","1",".","5","-","p","r","o">>,
        <<"g","o","o","g","l","e","/","g","e","m","i","n","i","-","2",".","5","-","p","r","o","-","e","x","p","-","0","3","-","2","5">> >>,  \* 'google/gemini-1.5-pro': google/gemini-2.5-pro-exp-03-25
     << <<"g","o","o","g","l","e","/","g","e","m","i","n","i","-","1",".","5","-","f","l","a","s","h">>,
        <<"g","o","o","g","l","e","/","g","e","m","i","n","i","-","2",".","5","-","p","r","o","-","e","x","p","-","0","3","-","2","5">> >>,  \* 'google/gemini-1.5-flash': google/gemini-2.5-pro-exp-03-25
     << <<"o","p","e","n","a","i","/","g","p","t","-","4","-","t","u","r","b","o">>,
        <<"o","p","e","n","a","i","/","g","p","t","-","4","o","-","l","a","t","e","s","t">> >>,  \* 'openai/gpt-4-turbo': openai/gpt-4o-latest
     << <<"o","p","e","n","a","i","/","g","p","t","-","4","-","t","u","r","b","o","-","p","r","e","v","i","e","w">>,
        <<"o","p","e","n","a","i","/","g","p","t","-","4","o","-","l","a","t","e","s","t">> >>,  \* 'openai/gpt-4-turbo-preview': openai/gpt-4o-latest
     << <<"o","p","e","n","a","i","/","g","p","t","-","4","-","1","1","0","6","-","p","r","e","v","i","e","w">>,
        <<"o","p","e","n","a","i","/","g","p","t","-","4","o","-","l","a","t","e","s","t">> >>,  \* 'openai/gpt-4-1106-preview': openai/gpt-4o-latest
     << <<"o","p","e","n","a","i","/","g","p","t","-","4","-","0","1","2","5","-","p","r","e","v","i","e","w">>,
        <<"o","p","e","n","a","i","/","g","p","t","-","4","o","-","l","a","t","e","s","t">> >>,  \* 'openai/gpt-4-0125-preview': openai/gpt-4o-latest
     << <<"o","p","e","n","a","i","/","g","p","t","-","4","-","0","6","1","3">>,
        <<"o","p","e","n","a","i","/","g","p","t","-","4","o","-","l","a","t","e","s","t">> >>,  \* 'openai/gpt-4-0613': openai/gpt-4o-latest
     << <<"o","p","e","n","a","i","/","g","p","t","-","4","-","0","3","1","4">>,
        <<"o","p","e","n","a","i","/","g","p","t","-","4","o","-","l","a","t","e","s","t">> >>,  \* 'openai/gpt-4-0314': openai/gpt-4o-latest
     << <<"o","p","e","n","a","i","/","g","p","t","-","3",".","5","-","t","u","r","b","o">>,
        <<"o","p","e","n","a","i","/","o","4","-","m","i","n","i">> >>,  \* 'openai/gpt-3.5-turbo': openai/o4-mini
     << <<"o","p","e","n","a","i","/","g","p","t","-","3",".","5","-","t","u","r","b","o","-","1","6","k">>,
        <<"o","p","e","n","a","i","/","o","4","-","m","i","n","i">> >>,  \* 'openai/gpt-3.5-turbo-16k': openai/o4-mini
     << <<"a","n","t","h","r","o","p","i","c","/","c","l","a","u","d","e","-","3",".","5","-","s","o","n","n","e","t">>,
        <<"a","n","t","h","r","o","p","i","c","/","c","l","a","u","d","e","-","3",".","7","-","s","o","n","n","e","t">> >>,  \* 'anthropic/claude-3.5-sonnet': anthropic/claude-3.7-sonnet
     << <<"a","n","t","h","r","o","p","i","c","/","c","l","a","u","d","e","-","3",".","5","-","s","o","n","n","e","t",":","t","h","i","n","k","i","n","g">>,
        <<"a","n","t","h","r","o","p","i","c","/","c","l","a","u","d","e","-","3",".","7","-","s","o","n","n","e","t",":","t","h","i","n","k","i","n","g">> >>,  \* 'anthropic/claude-3.5-sonnet:thinking': anthropic/claude-3.7-sonnet:thinking
     << <<"a","n","t","h","r","o","p","i","c","/","c","l","a","u","d","e","-","3","-","o","p","u","s">>,
        <<"a","n","t","h","r","o","p","i","c","/","c","l","a","u","d","e","-","3",".","7","-","s","o","n","n","e","t">> >>,  \* 'anthropic/claude-3-opus': anthropic/claude-3.7-sonnet
     << <<"a","n","t","h","r","o","p","i","c","/","c","l","a","u","d","e","-","3","-","o","p","u","s",":","t","h","i","n","k","i","n","g">>,
        <<"a","n","t","h","r","o","p","i","c","/","c","l","a","u","d","e","-","3",".","7","-","s","o","n","n","e","t",":","t","h","i","n","k","i","n","g">> >>,  \* 'anthropic/claude-3-opus:thinking': anthropic/claude-3.7-sonnet:thinking
     << <<"a","n","t","h","r","o","p","i","c","/","c","l","a","u","d","e","-","3","-","h","a","i","k","u">>,
        <<"a","n","t","h","r","o","p","i","c","/","c","l","a","u","d","e","-","3",".","7","-","s","o","n","n","e","t">> >>,  \* 'anthropic/claude-3-haiku': anthropic/claude-3.7-sonnet
     << <<"a","n","t","h","r","o","p","i","c","/","c","l","a","u","d","e","-","3","-","h","a","i","k","u",":","t","h","i","n","k","i","n","g">>,
        <<"a","n","t","h","r","o","p","i","c","/","c","l","a","u","d","e","-","3",".","7","-","s","o","n","n","e","t",":","t","h","i","n","k","i","n","g">> >>,  \* 'anthropic/claude-3-haiku:thinking': anthropic/claude-3.7-sonnet:thinking
     << <<"d","e","e","p","s","e","e","k","/","d","e","e","p","s","e","e","k","-","c","h","a","t","-","v","2">>,
        <<"d","e","e","p","s","e","e","k","/","d","e","e","p","s","e","e","k","-","c","h","a","t","-","v","3","-","0","3","2","4">> >>,  \* 'deepseek/deepseek-chat-v2': deepseek/deepseek-chat-v3-0324
     << <<"d","e","e","p","s","e","e","k","/","d","e","e","p","s","e","e","k","-","c","h","a","t","-","v","1">>,
        <<"d","e","e","p","s","e","e","k","/","d","e","e","p","s","e","e","k","-","c","h","a","t","-","v","3","-","0","3","2","4">> >>,  \* 'deepseek/deepseek-chat-v1': deepseek/deepseek-chat-v3-0324
     << <<"x","-","a","i","/","g","r","o","k","-","2">>,
        <<"x","-","a","i","/","g","r","o","k","-","3","-","b","e","t","a">> >>,  \* 'x-ai/grok-2': x-ai/grok-3-beta
     << <<"x","-","a","i","/","g","r","o","k","-","1">>,
        <<"x","-","a","i","/","g","r","o","k","-","3","-","b","e","t","a">> >>,  \* 'x-ai/grok-1': x-ai/grok-3-beta
     << <<"m","i","s","t","r","a","l","a","i","/","m","i","s","t","r","a","l","-","7","b">>,
        <<"m","i","s","t","r","a","l","a","i","/","m","i","s","t","r","a","l","-","l","a","r","g","e">> >>,  \* 'mistralai/mistral-7b': mistralai/mistral-large
     << <<"m","i","s","t","r","a","l","a","i","/","m","i","s","t","r","a","l","-","m","e","d","i","u","m">>,
        <<"m","i","s","t","r","a","l","a","i","/","m","i","s","t","r","a","l","-","l","a","r","g","e">> >>,  \* 'mistralai/mistral-medium': mistralai/mistral-large
     << <<"m","e","t","a","-","l","l","a","m","a","/","l","l","a","m","a","-","2">>,
        <<"m","e","t","a","-","l","l","a","m","a","/","l","l","a","m","a","-","3",".","1","-","8","b">> >>,  \* 'meta-llama/llama-2': meta-llama/llama-3.1-8b
     << <<"m","e","t","a","-","l","l","a","m","a","/","l","l","a","m","a","-","2","-","7","0","b">>,
        <<"m","e","t","a","-","l","l","a","m","a","/","l","l","a","m","a","-","3",".","1","-","7","0","b">> >>,  \* 'meta-llama/llama-2-70b': meta-llama/llama-3.1-70b
     << <<"m","e","t","a","-","l","l","a","m","a","/","l","l","a","m","a","-","2","-","1","3","b">>,
        <<"m","e","t","a","-","l","l","a","m","a","/","l","l","a","m","a","-","3",".","1","-","8","b">> >>,  \* 'meta-llama/llama-2-13b': meta-llama/llama-3.1-8b
     << <<"m","e","t","a","-","l","l","a","m","a","/","l","l","a","m","a","-","2","-","7","b">>,
        <<"m","e","t","a","-","l","l","a","m","a","/","l","l","a","m","a","-","3",".","1","-","8","b">> >> >>  \* 'meta-llama/llama-2-7b': meta-llama/llama-3.1-8b

\* ------------------------------------------------------------------------
\* The dry run's own copies of the parser, the validator and the resolvers
\* (utils/test_update_config.py).  The catalog: a sequence of [name |-> label, models |-> list of str],
\* in the insertion order of the dict built by the parser
\* ------------------------------------------------------------------------

\* index of the entry of category label c, 0 when c is not a key
dry_cat_index(categories, c) ==
  IF \E i \in 1..Len(categories) : categories[i].name = c
  THEN CHOOSE i \in 1..Len(categories) : categories[i].name = c
  ELSE 0

\* one iteration of the parser's loop: (categories, current_category), item
dry_parse_item(st, item) ==
  IF startswith(item, DASHES) /\ endswith(item, DASHES)
  THEN [st EXCEPT !.current_category = strip(item, "-")]
  ELSE IF Truthy(st.current_category) /\ ~startswith(item, DASHES)
  THEN LET k == dry_cat_index(st.categories, st.current_category)
       IN  IF k = 0
           THEN [st EXCEPT !.categories =
                   Append(@, [name |-> st.current_category, models |-> << item >>])]
           ELSE [st EXCEPT !.categories[k].models = Append(@, item)]
  ELSE st

RECURSIVE dry_parse_loop(_, _)
dry_parse_loop(st, models_list) ==
  IF models_list = << >> THEN st
  ELSE dry_parse_loop(dry_parse_item(st, Head(models_list)), Tail(models_list))

dry_extract_models_by_category(models_list) ==
  dry_parse_loop([categories |-> << >>, current_category |-> None], models_list).categories

\* for category, models in categories.items(): for model in models:
\* the entries in the order the nested loops visit them
RECURSIVE dry_scan(_)
dry_scan(categories) ==
  IF categories = << >> THEN << >>
  ELSE Head(categories).models \o dry_scan(Tail(categories))

\* model.endswith(':free')
dry_is_free(model) == endswith(model, FREE)

\* m.split(':')[0] if ':' in m else m
dry_base_of(m) == IF char_in(":", m) THEN split(m, ":")[1] ELSE m

\* model_base == base_model
dry_same_base(model, base_model) == dry_base_of(model) = base_model

\* not latest_model or model > latest_model
dry_is_newer_reversed(model, latest_model) ==
  ~Truthy(latest_model) \/ StrGreater(latest_model, model)

dry_is_newer(model, latest_model) ==
  ~Truthy(latest_model) \/ StrGreater(model, latest_model)

\* ------------------------------------------------------------------------
\* find_newer_model_family
\* ------------------------------------------------------------------------

\* the inner loops: some entry that is not ':free' equals newer_model
dry_family_hit(newer_model, categories) ==
  \E i \in 1..Len(dry_scan(categories)) :
     ~dry_is_free(dry_scan(categories)[i]) /\ dry_scan(categories)[i] = newer_model

\* for newer_model in dry_model_families[current_model]: first hit is returned
RECURSIVE dry_family_loop(_, _)
dry_family_loop(candidates, categories) ==
  IF candidates = << >> THEN None
  ELSE IF dry_family_hit(Head(candidates), categories) THEN Head(candidates)
  ELSE dry_family_loop(Tail(candidates), categories)

dry_find_newer_model_family(current_model, categories) ==
  IF table_has(dry_model_families, current_model)
  THEN dry_family_loop(table_get(dry_model_families, current_model), categories)
  ELSE None

\* ------------------------------------------------------------------------
\* find_latest_model_version
\* ------------------------------------------------------------------------
RECURSIVE dry_latest_loop(_, _, _)
dry_latest_loop(ms, base_model, latest_model) ==
  IF ms = << >> THEN latest_model
  ELSE LET model == Head(ms)
       IN  IF dry_is_free(model)
           THEN dry_latest_loop(Tail(ms), base_model, latest_model)
           ELSE IF dry_same_base(model, base_model) /\ dry_is_newer(model, latest_model)
           THEN dry_latest_loop(Tail(ms), base_model, model)
           ELSE dry_latest_loop(Tail(ms), base_model, latest_model)

dry_find_latest_model_version(current_model, categories) ==
  LET base_model   == dry_base_of(current_model)
      latest_model == dry_latest_loop(dry_scan(categories), base_model, None)
  IN  IF ~Truthy(latest_model)
      THEN dry_find_newer_model_family(current_model, categories)
      ELSE latest_model

\* ------------------------------------------------------------------------
\* validate_model_exists
\* ------------------------------------------------------------------------
RECURSIVE dry_exists_loop(_, _)
dry_exists_loop(ms, model_name) ==
  IF ms = << >> THEN FALSE
  ELSE IF Head(ms) = model_name THEN TRUE
  ELSE dry_exists_loop(Tail(ms), model_name)

dry_validate_model_exists(model_name, categories) ==
  dry_exists_loop(dry_scan(categories), model_name)

\* ------------------------------------------------------------------------
\* find_valid_replacement_model
\* ------------------------------------------------------------------------

\* step 1: the direct mapping, returned only when it is in the catalog
dry_direct_replacement(invalid_model, categories) ==
  IF table_has(dry_replacement_mappings, invalid_model)
     /\ dry_validate_model_exists(table_get(dry_replacement_mappings, invalid_model), categories)
  THEN table_get(dry_replacement_mappings, invalid_model)
  ELSE None

\* any(part in model for part in invalid_parts[:2])
dry_shares_part(model, invalid_parts) ==
  \E k \in 1..Len(take(invalid_parts, 2)) : str_in(invalid_parts[k], model)

\* step 2: the first same-provider entry that shares a part with model_name
RECURSIVE dry_similar_loop(_, _, _)
dry_similar_loop(ms, provider, model_name) ==
  IF ms = << >> THEN None
  ELSE LET model == Head(ms)
       IN  IF ~dry_is_free(model)
              /\ startswith(model, provider \o SLASH)
              /\ dry_shares_part(model, split(model_name, "-"))
           THEN model
           ELSE dry_similar_loop(Tail(ms), provider, model_name)

\* step 3: the first entry of the same provider
RECURSIVE dry_fallback_loop(_, _)
dry_fallback_loop(ms, provider) ==
  IF ms = << >> THEN None
  ELSE IF ~dry_is_free(Head(ms)) /\ startswith(Head(ms), provider \o SLASH)
  THEN Head(ms)
  ELSE dry_fallback_loop(Tail(ms), provider)

dry_find_valid_replacement_model(invalid_model, categories) ==
  LET direct  == dry_direct_replacement(invalid_model, categories)
      parts   == split(invalid_model, "/")
      similar == IF Len(parts) = 2
                 THEN dry_similar_loop(dry_scan(categories), parts[1], parts[2])
                 ELSE None
  IN  IF direct # None THEN direct
      ELSE IF similar # None THEN similar
      ELSE dry_fallback_loop(dry_scan(categories), parts[1])

\* ------------------------------------------------------------------------
\* Inputs
\* ------------------------------------------------------------------------
E_gpt4o == <<"o","p","e","n","a","i","/","g","p","t","-","4","o">>  \* 'openai/gpt-4o'
E_gpt4o_latest == <<"o","p","e","n","a","i","/","g","p","t","-","4","o","-","l","a","t","e","s","t">>  \* 'openai/gpt-4o-latest'
E_gpt4o_extended == <<"o","p","e","n","a","i","/","g","p","t","-","4","o",":","e","x","t","e","n","d","e","d">>  \* 'openai/gpt-4o:extended'
E_gpt4o_free == <<"o","p","e","n","a","i","/","g","p","t","-","4","o",":","f","r","e","e">>  \* 'openai/gpt-4o:free'
E_claude37 == <<"a","n","t","h","r","o","p","i","c","/","c","l","a","u","d","e","-","3",".","7","-","s","o","n","n","e","t">>  \* 'anthropic/claude-3.7-sonnet'
E_model_a_free == <<"x","/","m","o","d","e","l","-","a",":","f","r","e","e">>  \* 'x/model-a:free'
Q_gpt4_turbo == <<"o","p","e","n","a","i","/","g","p","t","-","4","-","t","u","r","b","o">>  \* 'openai/gpt-4-turbo'
Q_claude35 == <<"a","n","t","h","r","o","p","i","c","/","c","l","a","u","d","e","-","3",".","5","-","s","o","n","n","e","t">>  \* 'anthropic/claude-3.5-sonnet'
Q_unknown == <<"v","e","n","d","o","r","/","u","n","k","n","o","w","n","-","m","o","d","e","l">>  \* 'vendor/unknown-model'
Q_model_a == <<"x","/","m","o","d","e","l","-","a">>  \* 'x/model-a'
Q_upper == <<"O","p","e","n","A","I","/","g","p","t","-","4","o">>  \* 'OpenAI/gpt-4o'
Q_gpt4_turbo_ext == <<"o","p","e","n","a","i","/","g","p","t","-","4","-","t","u","r","b","o",":","e","x","t","e","n","d","e","d">>  \* 'openai/gpt-4-turbo:extended'
Q_opus == <<"a","n","t","h","r","o","p","i","c","/","o","p","u","s","-","9">>  \* 'anthropic/opus-9'
Q_no_slash == <<"g","p","t","4">>  \* 'gpt4'
Q_two_slashes == <<"o","p","e","n","a","i","/","g","p","t","/","4","o">>  \* 'openai/gpt/4o'
Q_chatgpt_latest == <<"o","p","e","n","a","i","/","c","h","a","t","g","p","t","-","l","a","t","e","s","t","-","4","o">>  \* 'openai/chatgpt-latest-4o'
Q_two_slashes_latest == <<"o","p","e","n","a","i","/","c","h","a","t","g","p","t","-","l","a","t","e","s","t","/","x">>  \* 'openai/chatgpt-latest/x'
TEXT == <<"-","-","-","T","e","x","t","-","-","-">>  \* '---Text---'
CODE == <<"-","-","-","C","o","d","e","-","-","-">>  \* '---Code---'
LABEL == <<"G","P","T">>  \* 'GPT'

\* entries of the catalog source
IdPool ==
  { E_gpt4o, E_gpt4o_latest, E_gpt4o_extended, E_gpt4o_free, E_claude37,
    E_model_a_free, Q_gpt4_turbo }

\* identifiers the resolvers are asked about
QueryPool ==
  { E_gpt4o, E_gpt4o_extended, E_gpt4o_free, Q_gpt4_turbo, Q_claude35,
    Q_unknown, Q_model_a, Q_upper, Q_gpt4_turbo_ext, Q_opus, Q_no_slash,
    Q_two_slashes, Q_chatgpt_latest, Q_two_slashes_latest }

\* largest number of identifiers in a catalog source
MaxModels == 3

SeqsUpTo(S, n) == UNION { [1..k -> S] : k \in 0..n }

\* catalog sources: a 'Text' section followed by a 'Code' section
Sources ==
  UNION { { << TEXT >> \o SubSeq(p, 1, k) \o << CODE >> \o SubSeq(p, k + 1, Len(p))
            : k \in 0..Len(p) } : p \in SeqsUpTo(IdPool, MaxModels) }

\* the contents openrouter.txt may have when the two scripts run
RunSources ==
  { << TEXT, E_gpt4o, E_gpt4o_extended, E_gpt4o_free, CODE, E_gpt4o_latest >>,
    << TEXT, E_claude37, CODE, E_gpt4o_latest >> }

\* strings of a catalog source: section markers, a marker without a label,
\* a string that only starts and one that only ends with the dashes, entries
BARE == << "-", "-", "-" >>
HALF == << "-", "-", "-", "x" >>
TAIL == << "x", "-", "-", "-" >>
ENTRY_A == << "a" >>
ENTRY_B == << "b", "-" >>

ItemPool == { TEXT, CODE, BARE, HALF, TAIL, ENTRY_A, ENTRY_B }

\* largest number of strings in a catalog source given to the parser
MaxItems == 4

ParseSources == SeqsUpTo(ItemPool, MaxItems)

\* model references of the configuration document
RefPool == { E_gpt4o, E_gpt4o_extended, Q_gpt4_turbo, Q_unknown }

\* largest number of entries of modelSpecs.list
MaxSpecs == 2

\* largest number of entries of an endpoint's models.default
MaxDefaults == 2

\* entries of modelSpecs.list
SpecPool ==
  { [name |-> "spec", preset |-> [endpoint |-> "OpenRouter", model |-> m]]
      : m \in RefPool }
  \cup
  { [name |-> "spec", modelLabel |-> LABEL,
     preset |-> [endpoint |-> "OpenRouter", model |-> m]] : m \in { E_gpt4o, Q_unknown } }
  \cup
  { [name |-> "spec",
     preset |-> [endpoint |-> "OpenRouter", model |-> Q_gpt4_turbo, modelLabel |-> LABEL]],
    [name |-> "spec", preset |-> [endpoint |-> "OpenRouter"]],
    [name |-> "spec"] }

\* the modelSpecs section; Absent when the document has none
Absent == [absent |-> TRUE]

SpecSections ==
  { Absent, [enforce |-> TRUE] }
  \cup { [enforce |-> TRUE, list |-> l] : l \in SeqsUpTo(SpecPool, MaxSpecs) }

\* entries of endpoints.custom
EndpointPool ==
  { [name |-> "OpenRouter", models |-> [fetch |-> FALSE, default |-> d]]
      : d \in SeqsUpTo(RefPool, MaxDefaults) }
  \cup { [name |-> "OpenRouter", models |-> [fetch |-> TRUE]],
         [name |-> "OpenRouter"] }

\* the endpoints section; Absent when the document has none
EndpointSections ==
  { Absent, [agents |-> TRUE] }
  \cup { [custom |-> << ep >>] : ep \in EndpointPool }
  \cup { [custom |-> << [name |-> "A", models |-> [default |-> << a >>]],
                        [name |-> "B", models |-> [default |-> << b >>]] >>]
           : a \in { E_gpt4o, Q_gpt4_turbo }, b \in { E_gpt4o_extended, Q_unknown } }

\* the document with the two optional sections
Doc(ms, eps) ==
  [k \in {"version"} \cup (IF ms = Absent THEN {} ELSE {"modelSpecs"})
                     \cup (IF eps = Absent THEN {} ELSE {"endpoints"})
     |-> IF k = "version" THEN "1.2.1" ELSE IF k = "modelSpecs" THEN ms ELSE eps]

\* a few sections that every other section is combined with
FewSpecSections ==
  { Absent,
    [enforce |-> TRUE,
     list |-> << [name |-> "spec", modelLabel |-> LABEL,
                  preset |-> [endpoint |-> "OpenRouter", model |-> E_gpt4o]],
                 [name |-> "spec",
                  preset |-> [endpoint |-> "OpenRouter", model |-> Q_unknown]] >>] }

FewEndpointSections ==
  { Absent,
    [custom |-> << [name |-> "OpenRouter",
                    models |-> [fetch |-> FALSE,
                                default |-> << Q_gpt4_turbo, E_gpt4o >>]] >>] }

\* the contents librechat.yaml may have when the two scripts run
ConfigPool ==
  { Doc(ms, eps) : ms \in SpecSections, eps \in FewEndpointSections }
  \cup { Doc(ms, eps) : ms \in FewSpecSections, eps \in EndpointSections }

\* ------------------------------------------------------------------------
\* State
\* ------------------------------------------------------------------------
VARIABLES
  disk_yaml,          \* content of librechat.yaml, NoneDoc when it cannot be loaded
  disk_txt,           \* content of openrouter.txt, [] when it cannot be loaded
  prog,               \* the script that is executing: "apply", "dry" or "none"
  pc,                 \* position of the executing script
  ran,                \* the scripts that have finished
  config,             \* main's config
  openrouter_models,  \* main's openrouter_models
  categories,         \* categories of the pass that is executing
  i,                  \* position of `for spec in config['modelSpecs']['list']`
  e,                  \* position of `for endpoint in config['endpoints']['custom']`
  j,                  \* position of `for current_model in current_models`
  updated_specs,      \* updated_specs
  updated_models,     \* updated_models
  updates_made,       \* updates_made / updates_found
  replacements_made,  \* replacements_made / replacements_found
  out,                \* per script, the messages printed that report a decision
  loaded,             \* per script, the document load_yaml_file returned
  ret,                \* per script, the value main returned
  catalog,            \* a resolver call: the categories argument
  query,              \*                  the identifier argument
  op,                 \*                  the function called, "none" before it
  found,              \*                  return value of validate_model_exists
  result,             \*                  return value of a resolver
  again               \*                  find_latest_model_version of result

run_vars ==
  << disk_yaml, disk_txt, prog, pc, ran, config, openrouter_models, categories,
     i, e, j, updated_specs, updated_models, updates_made, replacements_made,
     out, loaded, ret >>

call_vars == << catalog, query, op, found, result, again >>

vars == << run_vars, call_vars >>

\* Python None in a position that otherwise holds the document
NoneDoc == [None |-> TRUE]

\* a printed message that reports a decision on one model reference
Msg(kind, model, to) ==
  [kind |-> kind, model |-> model, to |-> to, updates |-> 0, replacements |-> 0]

\* a printed summary of the two counters
Summary(u, r) ==
  [kind |-> "summary", model |-> None, to |-> None, updates |-> u, replacements |-> r]

\* a printed message that carries no model
Note(kind) == Msg(kind, None, None)

\* ------------------------------------------------------------------------
\* The resolvers applied to a catalog and an identifier
\* ------------------------------------------------------------------------
RunIdle ==
  /\ prog = "none"
  /\ pc = "idle"
  /\ ran = {}
  /\ config = NoneDoc
  /\ openrouter_models = << >>
  /\ categories = << >>
  /\ i = 0
  /\ e = 0
  /\ j = 0
  /\ updated_specs = << >>
  /\ updated_models = << >>
  /\ updates_made = 0
  /\ replacements_made = 0
  /\ out = [apply |-> << >>, dry |-> << >>]
  /\ loaded = [apply |-> NoneDoc, dry |-> NoneDoc]
  /\ ret = [apply |-> "none", dry |-> "none"]

CallIdle ==
  /\ op = "none"
  /\ found = FALSE
  /\ result = None
  /\ again = None

InitResolve ==
  /\ catalog \in { extract_models_by_category(src) : src \in Sources }
  /\ query \in QueryPool
  /\ CallIdle
  /\ disk_yaml = NoneDoc
  /\ disk_txt = << >>
  /\ RunIdle

CallExists ==
  /\ op = "none"
  /\ op' = "exists"
  /\ found' = validate_model_exists(query, catalog)
  /\ UNCHANGED << catalog, query, result, again, run_vars >>

CallLatest ==
  /\ op = "none"
  /\ op' = "latest"
  /\ result' = find_latest_model_version(query, catalog)
  /\ UNCHANGED << catalog, query, found, again, run_vars >>

CallFamily ==
  /\ op = "none"
  /\ op' = "family"
  /\ result' = find_newer_model_family(query, catalog)
  /\ UNCHANGED << catalog, query, found, again, run_vars >>

CallReplacement ==
  /\ op = "none"
  /\ op' = "replacement"
  /\ result' = find_valid_replacement_model(query, catalog)
  /\ UNCHANGED << catalog, query, found, again, run_vars >>

\* the caller feeds a changed result back into the version resolver
CallLatestAgain ==
  /\ op = "latest"
  /\ Truthy(result)
  /\ result # query
  /\ op' = "latest_again"
  /\ again' = find_latest_model_version(result, catalog)
  /\ UNCHANGED << catalog, query, found, result, run_vars >>

NextResolve ==
  \/ CallExists
  \/ CallLatest
  \/ CallFamily
  \/ CallReplacement
  \/ CallLatestAgain

SpecResolve == InitResolve /\ [][NextResolve]_vars

\* ---- the parser applied to the contents of a catalog source -------------

InitParse ==
  /\ disk_txt \in ParseSources
  /\ catalog = << >>
  /\ query = None
  /\ CallIdle
  /\ disk_yaml = NoneDoc
  /\ RunIdle

CallParse ==
  /\ op = "none"
  /\ op' = "parse"
  /\ catalog' = extract_models_by_category(disk_txt)
  /\ UNCHANGED << query, found, result, again, run_vars >>

NextParse == CallParse

SpecParse == InitParse /\ [][NextParse]_vars

\* ------------------------------------------------------------------------
\* The two scripts, run one after the other in either order on the files
\* ------------------------------------------------------------------------
Init ==
  /\ disk_yaml \in ConfigPool \cup {NoneDoc}
  /\ disk_txt \in RunSources \cup {<< >>}
  /\ RunIdle
  /\ catalog = << >>
  /\ query = None
  /\ CallIdle

\* python3 update_librechat_config.py / python3 test_update_config.py
Start(p) ==
  /\ prog = "none"
  /\ p \notin ran
  /\ prog' = p
  /\ pc' = "load_config"
  /\ config' = NoneDoc
  /\ openrouter_models' = << >>
  /\ categories' = << >>
  /\ i' = 0
  /\ e' = 0
  /\ j' = 0
  /\ updated_specs' = << >>
  /\ updated_models' = << >>
  /\ updates_made' = 0
  /\ replacements_made' = 0
  /\ UNCHANGED << disk_yaml, disk_txt, ran, out, loaded, ret, call_vars >>

\* main returns v
Return(p, v) ==
  /\ prog' = "none"
  /\ pc' = "idle"
  /\ ran' = ran \cup {p}
  /\ ret' = [ret EXCEPT ![p] = v]

Say(p, msgs) == out' = [out EXCEPT ![p] = @ \o msgs]

\* ---- update_librechat_config.py: main ----------------------------------

\* config = load_yaml_file('librechat.yaml'); if not config: return False
main_load_config ==
  /\ prog = "apply"
  /\ pc = "load_config"
  /\ config' = disk_yaml
  /\ loaded' = [loaded EXCEPT !.apply = disk_yaml]
  /\ IF disk_yaml = NoneDoc
     THEN /\ Return("apply", "False")
          /\ Say("apply", << Note("load_failed") >>)
     ELSE /\ pc' = "load_models"
          /\ UNCHANGED << prog, ran, ret, out >>
  /\ UNCHANGED << disk_yaml, disk_txt, openrouter_models, categories, i, e, j,
                  updated_specs, updated_models, updates_made, replacements_made,
                  call_vars >>

\* openrouter_models = load_openrouter_models('openrouter.txt')
\* if not openrouter_models: return False
main_load_models_unchecked ==
  /\ prog = "apply"
  /\ pc = "load_models"
  /\ openrouter_models' = disk_txt
  /\ pc' = "specs_begin"
  /\ UNCHANGED << disk_yaml, disk_txt, prog, ran, ret, out, config, categories,
                  i, e, j, updated_specs, updated_models, updates_made,
                  replacements_made, loaded, call_vars >>

main_load_models ==
  /\ prog = "apply"
  /\ pc = "load_models"
  /\ openrouter_models' = disk_txt
  /\ IF disk_txt = << >>
     THEN /\ Return("apply", "False")
          /\ Say("apply", << Note("load_failed") >>)
     ELSE /\ pc' = "specs_begin"
          /\ UNCHANGED << prog, ran, ret, out >>
  /\ UNCHANGED << disk_yaml, disk_txt, config, categories, i, e, j,
                  updated_specs, updated_models, updates_made, replacements_made,
                  loaded, call_vars >>

\* ---- update_model_specs_with_latest_models ------------------------------

\* the two `if ... not in ...` that create modelSpecs and its list
with_model_specs(cfg) ==
  LET c1 == IF ~has_key(cfg, "modelSpecs")
            THEN set_key(cfg, "modelSpecs", [list |-> << >>])
            ELSE cfg
  IN  IF ~has_key(c1.modelSpecs, "list")
      THEN set_key(c1, "modelSpecs", set_key(c1.modelSpecs, "list", << >>))
      ELSE c1

update_specs_begin ==
  /\ prog = "apply"
  /\ pc = "specs_begin"
  /\ config' = with_model_specs(config)
  /\ categories' = extract_models_by_category(openrouter_models)
  /\ updated_specs' = << >>
  /\ updates_made' = 0
  /\ replacements_made' = 0
  /\ i' = 1
  /\ pc' = "specs_loop"
  /\ UNCHANGED << disk_yaml, disk_txt, prog, ran, openrouter_models, e, j,
                  updated_models, out, loaded, ret, call_vars >>

\* spec['preset']['model'] = m; if 'modelLabel' in spec: spec['modelLabel'] = m
set_model_and_label(spec, m) ==
  set_key(set_key(spec, "preset", set_key(spec.preset, "model", m)), "modelLabel", m)

set_model(spec, m) ==
  LET s1 == set_key(spec, "preset", set_key(spec.preset, "model", m))
  IN  IF has_key(spec, "modelLabel") THEN set_key(s1, "modelLabel", m) ELSE s1

\* if replacement_model:
replacement_found_always(replacement_model) == TRUE

replacement_found(replacement_model) == Truthy(replacement_model)

\* the body of `for spec in config['modelSpecs']['list']`: the spec after it,
\* what it prints and what it adds to the two counters
spec_step(spec, cats) ==
  IF has_key(spec, "preset") /\ has_key(spec.preset, "model")
  THEN LET current_model == spec.preset.model
       IN  IF ~validate_model_exists(current_model, cats)
           THEN LET replacement_model == find_valid_replacement_model(current_model, cats)
                IN  IF replacement_found(replacement_model)
                    THEN [spec |-> set_model(spec, replacement_model),
                          msgs |-> << Msg("invalid", current_model, None),
                                      Msg("replace", current_model, replacement_model) >>,
                          updates |-> 0, replacements |-> 1]
                    ELSE [spec |-> spec,
                          msgs |-> << Msg("invalid", current_model, None),
                                      Msg("nofound", current_model, None) >>,
                          updates |-> 0, replacements |-> 0]
           ELSE LET latest_model == find_latest_model_version(current_model, cats)
                IN  IF Truthy(latest_model) /\ latest_model # current_model
                    THEN [spec |-> set_model(spec, latest_model),
                          msgs |-> << Msg("update", current_model, latest_model) >>,
                          updates |-> 1, replacements |-> 0]
                    ELSE [spec |-> spec,
                          msgs |-> << Msg("keep", current_model, None) >>,
                          updates |-> 0, replacements |-> 0]
  ELSE [spec |-> spec, msgs |-> << >>, updates |-> 0, replacements |-> 0]

update_specs_iter ==
  /\ prog = "apply"
  /\ pc = "specs_loop"
  /\ i <= Len(config.modelSpecs.list)
  /\ LET r == spec_step(config.modelSpecs.list[i], categories)
     IN  /\ config' = set_key(config, "modelSpecs",
                        set_key(config.modelSpecs, "list",
                          [config.modelSpecs.list EXCEPT ![i] = r.spec]))
         /\ updated_specs' = Append(updated_specs, r.spec)
         /\ updates_made' = updates_made + r.updates
         /\ replacements_made' = replacements_made + r.replacements
         /\ Say("apply", r.msgs)
  /\ i' = i + 1
  /\ UNCHANGED << disk_yaml, disk_txt, prog, pc, ran, openrouter_models, categories,
                  e, j, updated_models, loaded, ret, call_vars >>

\* config['modelSpecs']['list'] = updated_specs; the summary; return config
update_specs_end ==
  /\ prog = "apply"
  /\ pc = "specs_loop"
  /\ i > Len(config.modelSpecs.list)
  /\ config' = set_key(config, "modelSpecs",
                 set_key(config.modelSpecs, "list", updated_specs))
  /\ Say("apply", << Summary(updates_made, replacements_made) >>)
  /\ pc' = "endpoints_begin"
  /\ UNCHANGED << disk_yaml, disk_txt, prog, ran, openrouter_models, categories,
                  i, e, j, updated_specs, updated_models, updates_made,
                  replacements_made, loaded, ret, call_vars >>

\* ---- update_endpoints_with_latest_models --------------------------------

\* 'endpoints' not in config or 'custom' not in config['endpoints']
no_custom_endpoints(cfg) ==
  ~has_key(cfg, "endpoints") \/ ~has_key(cfg.endpoints, "custom")

update_endpoints_begin ==
  /\ prog = "apply"
  /\ pc = "endpoints_begin"
  /\ IF no_custom_endpoints(config)
     THEN /\ pc' = "save"
          /\ UNCHANGED << categories, e >>
     ELSE /\ categories' = extract_models_by_category(openrouter_models)
          /\ e' = 1
          /\ pc' = "endpoint_begin"
  /\ UNCHANGED << disk_yaml, disk_txt, prog, ran, config, openrouter_models, i, j,
                  updated_specs, updated_models, updates_made, replacements_made,
                  out, loaded, ret, call_vars >>

\* 'models' in endpoint and 'default' in endpoint['models']
has_default_models(endpoint) ==
  has_key(endpoint, "models") /\ has_key(endpoint.models, "default")

\* the head of `for endpoint in config['endpoints']['custom']`
update_endpoint_begin ==
  /\ prog = "apply"
  /\ pc = "endpoint_begin"
  /\ e <= Len(config.endpoints.custom)
  /\ IF has_default_models(config.endpoints.custom[e])
     THEN /\ updated_models' = << >>
          /\ updates_made' = 0
          /\ replacements_made' = 0
          /\ j' = 1
          /\ pc' = "endpoint_loop"
          /\ UNCHANGED e
     ELSE /\ e' = e + 1
          /\ UNCHANGED << updated_models, updates_made, replacements_made, j, pc >>
  /\ UNCHANGED << disk_yaml, disk_txt, prog, ran, config, openrouter_models,
                  categories, i, updated_specs, out, loaded, ret, call_vars >>

\* the body of `for current_model in current_models`: the element appended
\* to updated_models, what it prints and what it adds to the two counters
endpoint_step(current_model, cats) ==
  IF ~validate_model_exists(current_model, cats)
  THEN LET replacement_model == find_valid_replacement_model(current_model, cats)
       IN  IF replacement_found(replacement_model)
           THEN [model |-> replacement_model,
                 msgs |-> << Msg("invalid", current_model, None),
                             Msg("replace", current_model, replacement_model) >>,
                 updates |-> 0, replacements |-> 1]
           ELSE [model |-> current_model,
                 msgs |-> << Msg("invalid", current_model, None),
                             Msg("nofound", current_model, None) >>,
                 updates |-> 0, replacements |-> 0]
  ELSE LET latest_model == find_latest_model_version(current_model, cats)
       IN  IF Truthy(latest_model) /\ latest_model # current_model
           THEN [model |-> latest_model,
                 msgs |-> << Msg("update", current_model, latest_model) >>,
                 updates |-> 1, replacements |-> 0]
           ELSE [model |-> current_model, msgs |-> << >>,
                 updates |-> 0, replacements |-> 0]

update_endpoint_iter ==
  /\ prog = "apply"
  /\ pc = "endpoint_loop"
  /\ j <= Len(config.endpoints.custom[e].models.default)
  /\ LET r == endpoint_step(config.endpoints.custom[e].models.default[j], categories)
     IN  /\ updated_models' = Append(updated_models, r.model)
         /\ updates_made' = updates_made + r.updates
         /\ replacements_made' = replacements_made + r.replacements
         /\ Say("apply", r.msgs)
  /\ j' = j + 1
  /\ UNCHANGED << disk_yaml, disk_txt, prog, pc, ran, config, openrouter_models,
                  categories, i, e, updated_specs, loaded, ret, call_vars >>

\* endpoint['models']['default'] = updated_models, and the endpoint's summary
update_endpoint_end ==
  /\ prog = "apply"
  /\ pc = "endpoint_loop"
  /\ j > Len(config.endpoints.custom[e].models.default)
  /\ LET endpoint == config.endpoints.custom[e]
         updated  == set_key(endpoint, "models",
                       set_key(endpoint.models, "default", updated_models))
     IN  config' = set_key(config, "endpoints",
                     set_key(config.endpoints, "custom",
                       [config.endpoints.custom EXCEPT ![e] = updated]))
  /\ IF updates_made > 0 \/ replacements_made > 0
     THEN Say("apply", << Summary(updates_made, replacements_made) >>)
     ELSE UNCHANGED out
  /\ e' = e + 1
  /\ pc' = "endpoint_begin"
  /\ UNCHANGED << disk_yaml, disk_txt, prog, ran, openrouter_models, categories,
                  i, j, updated_specs, updated_models, updates_made,
                  replacements_made, loaded, ret, call_vars >>

\* the loop over the endpoints is exhausted: return config
update_endpoints_end ==
  /\ prog = "apply"
  /\ pc = "endpoint_begin"
  /\ e > Len(config.endpoints.custom)
  /\ pc' = "save"
  /\ UNCHANGED << disk_yaml, disk_txt, prog, ran, config, openrouter_models,
                  categories, i, e, j, updated_specs, updated_models, updates_made,
                  replacements_made, out, loaded, ret, call_vars >>

\* save_yaml_file('librechat.yaml', config): open(file_path, 'w') truncates
\* the file and yaml.dump writes it.  The write succeeds, or open raises and
\* the file is as it was, or dump raises and the file is left incomplete.
main_save ==
  /\ prog = "apply"
  /\ pc = "save"
  /\ \E outcome \in {"written", "open_failed", "dump_failed"} :
       IF outcome = "written"
       THEN /\ disk_yaml' = config
            /\ Return("apply", "True")
            /\ Say("apply", << Note("saved") >>)
       ELSE /\ disk_yaml' = IF outcome = "open_failed" THEN disk_yaml ELSE NoneDoc
            /\ Return("apply", "False")
            /\ Say("apply", << Note("save_failed") >>)
  /\ UNCHANGED << disk_txt, config, openrouter_models, categories, i, e, j,
                  updated_specs, updated_models, updates_made, replacements_made,
                  loaded, call_vars >>

\* ---- test_update_config.py: main ----------------------------------------

test_main_load_config ==
  /\ prog = "dry"
  /\ pc = "load_config"
  /\ config' = disk_yaml
  /\ loaded' = [loaded EXCEPT !.dry = disk_yaml]
  /\ IF disk_yaml = NoneDoc
     THEN /\ Return("dry", "False")
          /\ Say("dry", << Note("load_failed") >>)
     ELSE /\ pc' = "load_models"
          /\ UNCHANGED << prog, ran, ret, out >>
  /\ UNCHANGED << disk_yaml, disk_txt, openrouter_models, categories, i, e, j,
                  updated_specs, updated_models, updates_made, replacements_made,
                  call_vars >>

test_main_load_models ==
  /\ prog = "dry"
  /\ pc = "load_models"
  /\ openrouter_models' = disk_txt
  /\ IF disk_txt = << >>
     THEN /\ Return("dry", "False")
          /\ Say("dry", << Note("load_failed") >>)
     ELSE /\ pc' = "specs_begin"
          /\ UNCHANGED << prog, ran, ret, out >>
  /\ UNCHANGED << disk_yaml, disk_txt, config, categories, i, e, j,
                  updated_specs, updated_models, updates_made, replacements_made,
                  loaded, call_vars >>

\* ---- test_model_specs_updates -------------------------------------------

\* 'modelSpecs' not in config or 'list' not in config['modelSpecs']
no_spec_list(cfg) ==
  ~has_key(cfg, "modelSpecs") \/ ~has_key(cfg.modelSpecs, "list")

test_specs_begin ==
  /\ prog = "dry"
  /\ pc = "specs_begin"
  /\ IF no_spec_list(config)
     THEN /\ Say("dry", << Note("no_specs") >>)
          /\ pc' = "endpoints_begin"
          /\ UNCHANGED << categories, updates_made, replacements_made, i >>
     ELSE /\ categories' = dry_extract_models_by_category(openrouter_models)
          /\ updates_made' = 0
          /\ replacements_made' = 0
          /\ i' = 1
          /\ pc' = "specs_loop"
          /\ UNCHANGED out
  /\ UNCHANGED << disk_yaml, disk_txt, prog, ran, config, openrouter_models, e, j,
                  updated_specs, updated_models, loaded, ret, call_vars >>

\* the body of `for spec in config['modelSpecs']['list']`: what it prints
\* and what it adds to the two counters
test_spec_step(spec, cats) ==
  IF has_key(spec, "preset") /\ has_key(spec.preset, "model")
  THEN LET current_model == spec.preset.model
       IN  IF ~dry_validate_model_exists(current_model, cats)
           THEN LET replacement_model ==
                      dry_find_valid_replacement_model(current_model, cats)
                IN  IF Truthy(replacement_model)
                    THEN [msgs |-> << Msg("invalid", current_model, None),
                                      Msg("replace", current_model, replacement_model) >>,
                          updates |-> 0, replacements |-> 1]
                    ELSE [msgs |-> << Msg("invalid", current_model, None),
                                      Msg("nofound", current_model, None) >>,
                          updates |-> 0, replacements |-> 0]
           ELSE LET latest_model == dry_find_latest_model_version(current_model, cats)
                IN  IF Truthy(latest_model) /\ latest_model # current_model
                    THEN [msgs |-> << Msg("update", current_model, latest_model) >>,
                          updates |-> 1, replacements |-> 0]
                    ELSE [msgs |-> << Msg("keep", current_model, None) >>,
                          updates |-> 0, replacements |-> 0]
  ELSE [msgs |-> << >>, updates |-> 0, replacements |-> 0]

test_specs_iter ==
  /\ prog = "dry"
  /\ pc = "specs_loop"
  /\ i <= Len(config.modelSpecs.list)
  /\ LET r == test_spec_step(config.modelSpecs.list[i], categories)
     IN  /\ updates_made' = updates_made + r.updates
         /\ replacements_made' = replacements_made + r.replacements
         /\ Say("dry", r.msgs)
  /\ i' = i + 1
  /\ UNCHANGED << disk_yaml, disk_txt, prog, pc, ran, config, openrouter_models,
                  categories, e, j, updated_specs, updated_models, loaded, ret,
                  call_vars >>

\* the test summary
test_specs_end ==
  /\ prog = "dry"
  /\ pc = "specs_loop"
  /\ i > Len(config.modelSpecs.list)
  /\ Say("dry", << Summary(updates_made, replacements_made) >>)
  /\ pc' = "endpoints_begin"
  /\ UNCHANGED << disk_yaml, disk_txt, prog, ran, config, openrouter_models,
                  categories, i, e, j, updated_specs, updated_models, updates_made,
                  replacements_made, loaded, ret, call_vars >>

\* ---- test_endpoints_updates ---------------------------------------------

\* 'endpoints' not in config or 'custom' not in config['endpoints']
dry_no_custom_endpoints(cfg) ==
  ~has_key(cfg, "endpoints") \/ ~has_key(cfg.endpoints, "custom")

test_endpoints_begin ==
  /\ prog = "dry"
  /\ pc = "endpoints_begin"
  /\ IF dry_no_custom_endpoints(config)
     THEN /\ Say("dry", << Note("no_endpoints") >>)
          /\ pc' = "finish"
          /\ UNCHANGED << categories, e >>
     ELSE /\ categories' = dry_extract_models_by_category(openrouter_models)
          /\ e' = 1
          /\ pc' = "endpoint_begin"
          /\ UNCHANGED out
  /\ UNCHANGED << disk_yaml, disk_txt, prog, ran, config, openrouter_models, i, j,
                  updated_specs, updated_models, updates_made, replacements_made,
                  loaded, ret, call_vars >>

\* 'models' in endpoint and 'default' in endpoint['models']
dry_has_default_models(endpoint) ==
  has_key(endpoint, "models") /\ has_key(endpoint.models, "default")

test_endpoint_begin ==
  /\ prog = "dry"
  /\ pc = "endpoint_begin"
  /\ e <= Len(config.endpoints.custom)
  /\ IF dry_has_default_models(config.endpoints.custom[e])
     THEN /\ updates_made' = 0
          /\ replacements_made' = 0
          /\ j' = 1
          /\ pc' = "endpoint_loop"
          /\ UNCHANGED e
     ELSE /\ e' = e + 1
          /\ UNCHANGED << updates_made, replacements_made, j, pc >>
  /\ UNCHANGED << disk_yaml, disk_txt, prog, ran, config, openrouter_models,
                  categories, i, updated_specs, updated_models, out, loaded, ret,
                  call_vars >>

\* the body of `for current_model in current_models`
test_endpoint_step(current_model, cats) ==
  IF ~dry_validate_model_exists(current_model, cats)
  THEN LET replacement_model == dry_find_valid_replacement_model(current_model, cats)
       IN  IF Truthy(replacement_model)
           THEN [msgs |-> << Msg("invalid", current_model, None),
                             Msg("replace", current_model, replacement_model) >>,
                 updates |-> 0, replacements |-> 1]
           ELSE [msgs |-> << Msg("invalid", current_model, None),
                             Msg("nofound", current_model, None) >>,
                 updates |-> 0, replacements |-> 0]
  ELSE LET latest_model == dry_find_latest_model_version(current_model, cats)
       IN  IF Truthy(latest_model) /\ latest_model # current_model
           THEN [msgs |-> << Msg("update", current_model, latest_model) >>,
                 updates |-> 1, replacements |-> 0]
           ELSE [msgs |-> << Msg("keep", current_model, None) >>,
                 updates |-> 0, replacements |-> 0]

test_endpoint_iter ==
  /\ prog = "dry"
  /\ pc = "endpoint_loop"
  /\ j <= Len(config.endpoints.custom[e].models.default)
  /\ LET r == test_endpoint_step(config.endpoints.custom[e].models.default[j],
                                 categories)
     IN  /\ updates_made' = updates_made + r.updates
         /\ replacements_made' = replacements_made + r.replacements
         /\ Say("dry", r.msgs)
  /\ j' = j + 1
  /\ UNCHANGED << disk_yaml, disk_txt, prog, pc, ran, config, openrouter_models,
                  categories, i, e, updated_specs, updated_models, loaded, ret,
                  call_vars >>

\* the endpoint's summary
test_endpoint_end ==
  /\ prog = "dry"
  /\ pc = "endpoint_loop"
  /\ j > Len(config.endpoints.custom[e].models.default)
  /\ IF updates_made > 0 \/ replacements_made > 0
     THEN Say("dry", << Summary(updates_made, replacements_made) >>)
     ELSE UNCHANGED out
  /\ e' = e + 1
  /\ pc' = "endpoint_begin"
  /\ UNCHANGED << disk_yaml, disk_txt, prog, ran, config, openrouter_models,
                  categories, i, j, updated_specs, updated_models, updates_made,
                  replacements_made, loaded, ret, call_vars >>

test_endpoints_end ==
  /\ prog = "dry"
  /\ pc = "endpoint_begin"
  /\ e > Len(config.endpoints.custom)
  /\ pc' = "finish"
  /\ UNCHANGED << disk_yaml, disk_txt, prog, ran, config, openrouter_models,
                  categories, i, e, j, updated_specs, updated_models, updates_made,
                  replacements_made, out, loaded, ret, call_vars >>

\* "No changes were made to the configuration."; return True
test_main_finish ==
  /\ prog = "dry"
  /\ pc = "finish"
  /\ Return("dry", "True")
  /\ Say("dry", << Note("completed") >>)
  /\ UNCHANGED << disk_yaml, disk_txt, config, openrouter_models, categories, i, e,
                  j, updated_specs, updated_models, updates_made, replacements_made,
                  loaded, call_vars >>

StartApply == Start("apply")
StartDry == Start("dry")

Next ==
  \/ StartApply
  \/ main_load_config
  \/ main_load_models
  \/ update_specs_begin
  \/ update_specs_iter
  \/ update_specs_end
  \/ update_endpoints_begin
  \/ update_endpoint_begin
  \/ update_endpoint_iter
  \/ update_endpoint_end
  \/ update_endpoints_end
  \/ main_save
  \/ StartDry
  \/ test_main_load_config
  \/ test_main_load_models
  \/ test_specs_begin
  \/ test_specs_iter
  \/ test_specs_end
  \/ test_endpoints_begin
  \/ test_endpoint_begin
  \/ test_endpoint_iter
  \/ test_endpoint_end
  \/ test_endpoints_end
  \/ test_main_finish

Spec == Init /\ [][Next]_vars

\* ------------------------------------------------------------------------
\* Properties of the resolvers (SpecResolve)
\* ------------------------------------------------------------------------

\* the entries of a catalog, over all its categories
Entries(cats) ==
  UNION { { cats[c].models[k] : k \in 1..Len(cats[c].models) } : c \in 1..Len(cats) }

\* the text of s before its first ':', all of s when it has none
BaseName(s) ==
  IF \E k \in 1..Len(s) : s[k] = ":"
  THEN SubSeq(s, 1, SetMin({ k \in 1..Len(s) : s[k] = ":" }) - 1)
  ELSE s

\* the entries that are not ':free' and have the base of x
Siblings(x, cats) ==
  { m \in Entries(cats) : ~endswith(m, FREE) /\ BaseName(m) = BaseName(x) }

\* C1: validate_model_exists(x, catalog) is true exactly when x is, character
\* for character, an entry of some category of the catalog; every category is
\* searched and ':free' entries count.
C1_ExistsIffEntry ==
  op = "exists" => (found <=> query \in Entries(catalog))

\* a ':free' identifier found in the second category only
C1_Witness ==
  /\ op = "exists"
  /\ found
  /\ endswith(query, FREE)
  /\ Len(catalog) = 2
  /\ \A k \in 1..Len(catalog[1].models) : catalog[1].models[k] # query

\* C2: none of find_latest_model_version, find_newer_model_family and
\* find_valid_replacement_model returns an identifier that ends in ':free',
\* also when a ':free' entry is the only one whose base or provider matches.
C2_NeverFree ==
  /\ op \in {"latest", "family", "replacement"} => ~endswith(result, FREE)
  /\ op = "latest_again" => ~endswith(again, FREE)

\* the only entry with the base and the provider of the query is ':free',
\* and the replacement resolver returns None
C2_Witness ==
  /\ op = "replacement"
  /\ query = Q_model_a
  /\ Entries(catalog) = { E_model_a_free }
  /\ result = None

\* C3: when some entry that is not ':free' has the base of x,
\* find_latest_model_version(x, catalog) is the greatest such entry in str
\* order, over all categories; so it is x when x is the greatest.
C3_LatestIsGreatestSibling ==
  (op = "latest" /\ Siblings(query, catalog) # {}) =>
     /\ result \in Siblings(query, catalog)
     /\ \A m \in Siblings(query, catalog) : m = result \/ StrGreater(result, m)

\* two siblings in two categories, the greater one first, and a ':free' one
C3_Witness ==
  /\ op = "latest"
  /\ query = E_gpt4o
  /\ Len(catalog) = 2
  /\ scan(catalog) = << E_gpt4o_extended, E_gpt4o_free, E_gpt4o >>
  /\ result = E_gpt4o_extended

\* Scenario A: the category 'Text' holds
\* ['openai/gpt-4o', 'openai/gpt-4o-latest'] and the query is 'openai/gpt-4o'
ScenarioA ==
  /\ op = "latest"
  /\ query = E_gpt4o
  /\ catalog = << [name |-> <<"T","e","x","t">>,
                   models |-> << E_gpt4o, E_gpt4o_latest >>] >>

\* C4 as stated: in Scenario A find_latest_model_version returns
\* 'openai/gpt-4o-latest'.
C4_ScenarioA_AsStated == ScenarioA => result = E_gpt4o_latest

\* C4: in Scenario A find_latest_model_version returns 'openai/gpt-4o', the
\* query itself: neither identifier has a ':', so 'openai/gpt-4o-latest' has
\* another base and is no sibling.
C4_ScenarioA == ScenarioA => result = E_gpt4o

C4_Witness == ScenarioA /\ result = query

\* C5: when find_latest_model_version(x) is y, not None and not x, then
\* find_latest_model_version(y) is not x.
C5_NoCycle == op = "latest_again" => again # query

\* y reached as a sibling of x
C5_Witness ==
  /\ op = "latest_again"
  /\ query = E_gpt4o
  /\ result = E_gpt4o_extended
  /\ again = E_gpt4o_extended

\* the first of the candidates, in their listed order, that is in S
FirstListed(candidates, S) ==
  IF \A k \in 1..Len(candidates) : candidates[k] \notin S THEN None
  ELSE candidates[SetMin({ k \in 1..Len(candidates) : candidates[k] \in S })]

\* C6: find_newer_model_family(x) looks x up verbatim in model_families and
\* returns the first candidate, in the listed order, that is an entry of the
\* catalog not ending in ':free'; None when x is no key or no candidate is
\* such an entry.  With the catalog ['anthropic/claude-3.7-sonnet'],
\* find_latest_model_version('anthropic/claude-3.5-sonnet') is None.
C6_FamilyFirstListed ==
  /\ op = "family" =>
       result = IF \E k \in 1..Len(model_families) : model_families[k][1] = query
                THEN FirstListed(
                       model_families[CHOOSE k \in 1..Len(model_families) :
                                        model_families[k][1] = query][2],
                       { m \in Entries(catalog) : ~endswith(m, FREE) })
                ELSE None
  /\ (op = "latest" /\ query = Q_claude35 /\ scan(catalog) = << E_claude37 >>) =>
       result = None

\* both candidates are in the catalog, the second listed one first
C6_Witness ==
  /\ op = "family"
  /\ query = Q_gpt4_turbo
  /\ scan(catalog) = << E_gpt4o_latest, E_gpt4o >>
  /\ result = E_gpt4o

\* C7: for a key x of replacement_mappings, find_valid_replacement_model
\* returns the mapped value when that value is an entry of the catalog, and
\* never returns it when it is not.
C7_DirectReplacement ==
  (op = "replacement" /\ \E k \in 1..Len(replacement_mappings) :
                            replacement_mappings[k][1] = query) =>
     LET mapped == replacement_mappings[CHOOSE k \in 1..Len(replacement_mappings) :
                                          replacement_mappings[k][1] = query][2]
     IN  IF mapped \in Entries(catalog) THEN result = mapped ELSE result # mapped

\* 'openai/gpt-4-turbo' gives 'openai/gpt-4o-latest' although
\* 'openai/gpt-4o', which the later steps would return, comes first
C7_Witness ==
  /\ op = "replacement"
  /\ query = Q_gpt4_turbo
  /\ scan(catalog) = << E_gpt4o, E_gpt4o_latest >>
  /\ result = E_gpt4o_latest

\* the number of '/' in x
Slashes(x) == Len(split(x, "/")) - 1

\* the text of x before its first '/'
Provider(x) == split(x, "/")[1]

\* step 1 gives a result: x is a key of the Replacement Table and the
\* mapped value is an entry of the catalog
DirectHit(x, cats) ==
  /\ table_has(replacement_mappings, x)
  /\ table_get(replacement_mappings, x) \in Entries(cats)

\* the first two hyphen-separated tokens of the model name of x
Tokens(x) == take(split(split(x, "/")[2], "-"), 2)

\* the positions, in scan order, of the entries the heuristic step accepts
SimilarAt(x, cats) ==
  { k \in 1..Len(scan(cats)) :
      /\ ~endswith(scan(cats)[k], FREE)
      /\ startswith(scan(cats)[k], Provider(x) \o SLASH)
      /\ \E t \in 1..Len(Tokens(x)) : str_in(Tokens(x)[t], scan(cats)[k]) }

\* the positions of the entries the last-resort step accepts
SameProviderAt(x, cats) ==
  { k \in 1..Len(scan(cats)) :
      /\ ~endswith(scan(cats)[k], FREE)
      /\ startswith(scan(cats)[k], Provider(x) \o SLASH) }

\* C13: for an identifier with exactly one '/' for which the Replacement
\* Table step gives nothing, the replacement is the first entry in scan
\* order that is not ':free', starts with provider + "/" and contains one of
\* the first two hyphen tokens of the model name, also when an earlier entry
\* of the provider does not.
C13_HeuristicFirstMatch ==
  (op = "replacement" /\ Slashes(query) = 1 /\ ~DirectHit(query, catalog)
     /\ SimilarAt(query, catalog) # {}) =>
    result = scan(catalog)[SetMin(SimilarAt(query, catalog))]

\* 'openai/chatgpt-latest-4o': the first openai entry holds neither
\* 'chatgpt' nor 'latest', a later one holds 'latest' and is returned
C13_Witness ==
  /\ op = "replacement"
  /\ query = Q_chatgpt_latest
  /\ scan(catalog) # << >>
  /\ scan(catalog)[1] = E_gpt4o
  /\ result = E_gpt4o_latest

\* C14: for every identifier, whatever its number of '/', when neither the
\* Replacement Table step nor the heuristic step gives a result (the
\* heuristic step is skipped unless there is exactly one '/'), the
\* replacement is the first entry in scan order that is not ':free' and
\* starts with the text before the first '/' followed by "/", and None
\* exactly when there is no such entry.
C14_Fallback ==
  (op = "replacement" /\ ~DirectHit(query, catalog)
     /\ (Slashes(query) # 1 \/ SimilarAt(query, catalog) = {})) =>
    result = IF SameProviderAt(query, catalog) = {}
             THEN None
             ELSE scan(catalog)[SetMin(SameProviderAt(query, catalog))]

\* 'openai/chatgpt-latest/x' has two '/': the first openai entry is
\* returned although a later one holds 'latest'
C14_Witness ==
  /\ op = "replacement"
  /\ query = Q_two_slashes_latest
  /\ scan(catalog) # << >>
  /\ scan(catalog)[1] = E_gpt4o
  /\ E_gpt4o_latest \in Entries(catalog)
  /\ result = E_gpt4o

\* C15: for an identifier that is an entry of the catalog (the only case in
\* which the passes call find_latest_model_version) the result is None or an
\* entry of the catalog with the base of the identifier; a result with
\* another base, a Family Table successor, occurs only for identifiers that
\* are no entry of the catalog.
C15_NoFamilyForEntries ==
  /\ (op = "latest" /\ query \in Entries(catalog)) =>
        \/ result = None
        \/ result \in Entries(catalog) /\ BaseName(result) = BaseName(query)
  /\ (op = "latest" /\ result # None /\ BaseName(result) # BaseName(query)) =>
        query \notin Entries(catalog)

\* 'openai/gpt-4-turbo' is a key of model_families and an entry of the
\* catalog next to its successor 'openai/gpt-4o': the result is the
\* identifier itself
C15_Witness ==
  /\ op = "latest"
  /\ query = Q_gpt4_turbo
  /\ { Q_gpt4_turbo, E_gpt4o } \subseteq Entries(catalog)
  /\ result = Q_gpt4_turbo

\* C16: a result of find_latest_model_version or find_valid_replacement_model
\* other than None is, character for character, an entry of the catalog;
\* hence a replacement, which is asked for identifiers that are no entry,
\* differs from the identifier it replaces.
C16_ResultsAreEntries ==
  /\ (op \in {"latest", "family", "replacement"} /\ result # None) =>
        /\ result \in Entries(catalog)
        /\ validate_model_exists(result, catalog)
  /\ (op = "replacement" /\ ~validate_model_exists(query, catalog)
        /\ result # None) => result # query
  /\ (op = "latest_again" /\ again # None) => again \in Entries(catalog)

\* the family path gave a successor that is an entry of the catalog
C16_Witness ==
  /\ op = "latest"
  /\ query = Q_gpt4_turbo
  /\ Q_gpt4_turbo \notin Entries(catalog)
  /\ result = E_gpt4o_latest
  /\ E_gpt4o \notin Entries(catalog)

\* ------------------------------------------------------------------------
\* Properties of the two scripts (Spec)
\* ------------------------------------------------------------------------

\* the spec pass is about to handle a reference for which
\* find_valid_replacement_model returns None
SpecUnresolved ==
  /\ prog = "apply"
  /\ pc = "specs_loop"
  /\ i <= Len(config.modelSpecs.list)
  /\ "preset" \in DOMAIN config.modelSpecs.list[i]
  /\ "model" \in DOMAIN config.modelSpecs.list[i].preset
  /\ ~validate_model_exists(config.modelSpecs.list[i].preset.model, categories)
  /\ find_valid_replacement_model(config.modelSpecs.list[i].preset.model,
                                  categories) = None

\* the endpoint pass is about to handle such a reference
EndpointUnresolved ==
  /\ prog = "apply"
  /\ pc = "endpoint_loop"
  /\ j <= Len(config.endpoints.custom[e].models.default)
  /\ ~validate_model_exists(config.endpoints.custom[e].models.default[j], categories)
  /\ find_valid_replacement_model(config.endpoints.custom[e].models.default[j],
                                  categories) = None

\* the counters a pass keeps
Counters ==
  [updates_made |-> updates_made, replacements_made |-> replacements_made]

\* the step leaves the reference as it is and counts nothing as replaced or
\* updated
KeptAndNotCounted ==
  /\ SpecUnresolved =>
       config'.modelSpecs.list[i] = config.modelSpecs.list[i]
  /\ EndpointUnresolved =>
       /\ updated_models' =
            Append(updated_models, config.endpoints.custom[e].models.default[j])
       /\ config' = config
  /\ (SpecUnresolved \/ EndpointUnresolved) =>
       /\ replacements_made' = replacements_made
       /\ updates_made' = updates_made

\* the references of the loaded document for which no replacement is found
\* hold the same value once both passes are done
UnresolvedUnchanged ==
  (prog = "apply" /\ pc = "save") =>
    LET before == loaded.apply
        cats   == extract_models_by_category(openrouter_models)
        gone(m) == ~validate_model_exists(m, cats)
                   /\ find_valid_replacement_model(m, cats) = None
    IN  /\ ("modelSpecs" \in DOMAIN before /\ "list" \in DOMAIN before.modelSpecs) =>
             \A n \in 1..Len(before.modelSpecs.list) :
                LET s == before.modelSpecs.list[n]
                IN  ("preset" \in DOMAIN s /\ "model" \in DOMAIN s.preset
                       /\ gone(s.preset.model)) => config.modelSpecs.list[n] = s
        /\ ("endpoints" \in DOMAIN before /\ "custom" \in DOMAIN before.endpoints) =>
             \A n \in 1..Len(before.endpoints.custom) :
                LET ep == before.endpoints.custom[n]
                IN  ("models" \in DOMAIN ep /\ "default" \in DOMAIN ep.models) =>
                      \A k \in 1..Len(ep.models.default) :
                         gone(ep.models.default[k]) =>
                           config.endpoints.custom[n].models.default[k]
                             = ep.models.default[k]

\* C8 as stated: when the resolver returns None for a configured reference,
\* the caller leaves the value unchanged, increments a counter of references
\* without replacement, and increments neither the replaced nor the updated
\* counter.
C8_Unresolved_AsStated ==
  /\ [][ /\ KeptAndNotCounted
         /\ (SpecUnresolved \/ EndpointUnresolved) =>
              \E c \in DOMAIN Counters : Counters'[c] = Counters[c] + 1 ]_vars
  /\ []UnresolvedUnchanged

\* C8: when the resolver returns None for a configured reference, the caller
\* leaves the value unchanged, prints "Invalid model" and "Could not find
\* replacement" for it, and increments no counter: the passes count updates
\* and replacements only.
C8_Unresolved ==
  /\ [][ /\ KeptAndNotCounted
         /\ (SpecUnresolved \/ EndpointUnresolved) =>
              \E m \in RefPool :
                 out'.apply = out.apply \o << Msg("invalid", m, None),
                                              Msg("nofound", m, None) >> ]_vars
  /\ []UnresolvedUnchanged

\* both passes are done, 'vendor/unknown-model' was reported in each and is
\* still the value of a spec and of an endpoint default
C8_Witness ==
  /\ prog = "apply"
  /\ pc = "save"
  /\ Len(SelectSeq(out.apply, LAMBDA m : m.kind = "nofound" /\ m.model = Q_unknown)) = 2
  /\ \E n \in 1..Len(config.modelSpecs.list) :
        /\ "preset" \in DOMAIN config.modelSpecs.list[n]
        /\ "model" \in DOMAIN config.modelSpecs.list[n].preset
        /\ config.modelSpecs.list[n].preset.model = Q_unknown
  /\ "endpoints" \in DOMAIN config
  /\ "custom" \in DOMAIN config.endpoints
  /\ \E n \in 1..Len(config.endpoints.custom) :
        /\ "models" \in DOMAIN config.endpoints.custom[n]
        /\ "default" \in DOMAIN config.endpoints.custom[n].models
        /\ \E k \in 1..Len(config.endpoints.custom[n].models.default) :
              config.endpoints.custom[n].models.default[k] = Q_unknown

\* a reference after the passes: as before, or what a resolver returned
ModelFrame(b, a, cats) ==
  \/ a = b
  \/ /\ a # None
     /\ a \in { find_valid_replacement_model(b, cats),
                find_latest_model_version(b, cats) }

\* an entry of modelSpecs.list: only preset.model and modelLabel may differ
SpecEntryFrame(b, a, cats) ==
  /\ DOMAIN a = DOMAIN b
  /\ \A k \in DOMAIN b \ {"preset", "modelLabel"} : a[k] = b[k]
  /\ IF "preset" \in DOMAIN b /\ "model" \in DOMAIN b.preset
     THEN /\ DOMAIN a.preset = DOMAIN b.preset
          /\ \A k \in DOMAIN b.preset \ {"model"} : a.preset[k] = b.preset[k]
          /\ ModelFrame(b.preset.model, a.preset.model, cats)
          /\ "modelLabel" \in DOMAIN b =>
               a.modelLabel = IF a.preset.model = b.preset.model
                              THEN b.modelLabel
                              ELSE a.preset.model
     ELSE a = b

\* an entry of endpoints.custom: only the elements of models.default may differ
EndpointFrame(b, a, cats) ==
  /\ DOMAIN a = DOMAIN b
  /\ \A k \in DOMAIN b \ {"models"} : a[k] = b[k]
  /\ "models" \in DOMAIN b =>
       /\ DOMAIN a.models = DOMAIN b.models
       /\ \A k \in DOMAIN b.models \ {"default"} : a.models[k] = b.models[k]
       /\ "default" \in DOMAIN b.models =>
            /\ Len(a.models.default) = Len(b.models.default)
            /\ \A n \in 1..Len(b.models.default) :
                  ModelFrame(b.models.default[n], a.models.default[n], cats)

\* the document: the same sections and keys, and in them only model
\* references differ
DocFrame(b, a, cats) ==
  /\ DOMAIN a = DOMAIN b
  /\ \A k \in DOMAIN b \ {"modelSpecs", "endpoints"} : a[k] = b[k]
  /\ "modelSpecs" \in DOMAIN b =>
       /\ DOMAIN a.modelSpecs = DOMAIN b.modelSpecs
       /\ \A k \in DOMAIN b.modelSpecs \ {"list"} : a.modelSpecs[k] = b.modelSpecs[k]
       /\ "list" \in DOMAIN b.modelSpecs =>
            /\ Len(a.modelSpecs.list) = Len(b.modelSpecs.list)
            /\ \A n \in 1..Len(b.modelSpecs.list) :
                  SpecEntryFrame(b.modelSpecs.list[n], a.modelSpecs.list[n], cats)
  /\ "endpoints" \in DOMAIN b =>
       /\ DOMAIN a.endpoints = DOMAIN b.endpoints
       /\ \A k \in DOMAIN b.endpoints \ {"custom"} : a.endpoints[k] = b.endpoints[k]
       /\ "custom" \in DOMAIN b.endpoints =>
            /\ Len(a.endpoints.custom) = Len(b.endpoints.custom)
            /\ \A n \in 1..Len(b.endpoints.custom) :
                  EndpointFrame(b.endpoints.custom[n], a.endpoints.custom[n], cats)

\* the document b with an empty modelSpecs.list where it has none
WithSpecList(b) ==
  [k \in DOMAIN b \cup {"modelSpecs"} |->
     IF k # "modelSpecs" THEN b[k]
     ELSE IF "modelSpecs" \notin DOMAIN b THEN [list |-> << >>]
     ELSE [x \in DOMAIN b.modelSpecs \cup {"list"} |->
             IF x = "list" /\ "list" \notin DOMAIN b.modelSpecs
             THEN << >>
             ELSE b.modelSpecs[x]]]

\* both passes of the apply run are done
PassesDone == prog = "apply" /\ pc = "save"

\* C9 as stated: the two passes change only model / modelLabel of spec
\* entries and elements of endpoint models.default; the sections and keys of
\* the document are the same after the run as before.
C9_Frame_AsStated ==
  PassesDone =>
    DocFrame(loaded.apply, config, extract_models_by_category(openrouter_models))

\* C9: the two passes change only model / modelLabel of spec entries and
\* elements of endpoint models.default, and create modelSpecs and
\* modelSpecs.list, empty, where the document has none; the rest of the
\* document is the same after the run as before.
C9_Frame ==
  PassesDone =>
    DocFrame(WithSpecList(loaded.apply), config,
             extract_models_by_category(openrouter_models))

\* a document without modelSpecs whose endpoint defaults were changed
C9_Witness ==
  /\ PassesDone
  /\ "modelSpecs" \notin DOMAIN loaded.apply
  /\ config.modelSpecs = [list |-> << >>]
  /\ "endpoints" \in DOMAIN loaded.apply
  /\ config.endpoints # loaded.apply.endpoints

\* the messages that classify a reference as replaced, updated or without
\* replacement (a kept reference has none of them)
Decisions(msgs) ==
  SelectSeq(msgs, LAMBDA m : m.kind \in {"replace", "update", "nofound"})

\* the summaries that report a count
Counts(msgs) ==
  SelectSeq(msgs, LAMBDA m : m.kind = "summary" /\ (m.updates > 0 \/ m.replacements > 0))

\* both scripts have run to their end on the same document and catalog
SameInput ==
  /\ ran = {"apply", "dry"}
  /\ ret.dry = "True"
  /\ ret.apply # "none"
  /\ loaded.apply = loaded.dry
  /\ out.apply[Len(out.apply)].kind \in {"saved", "save_failed"}

\* C10: on the same document and catalog the dry run and the apply run
\* classify every reference alike, with the same target, and report the same
\* counts; the dry run changes neither the file nor the loaded document.
C10_SameDecisions ==
  /\ SameInput =>
       /\ Decisions(out.dry) = Decisions(out.apply)
       /\ Counts(out.dry) = Counts(out.apply)
  /\ (prog = "dry" /\ pc # "load_config") =>
       /\ config = loaded.dry
       /\ disk_yaml = loaded.dry \/ "apply" \in ran

\* both ran; a reference was updated, one replaced, one left without
\* replacement
C10_Witness ==
  /\ SameInput
  /\ \A kind \in {"replace", "update", "nofound"} :
        \E n \in 1..Len(out.dry) : out.dry[n].kind = kind

\* one of the two files given to the apply run cannot be loaded
LoadFails == loaded.apply = NoneDoc \/ disk_txt = << >>

\* the apply run is past its two loads
PastLoads == prog = "apply" /\ pc \notin {"load_config", "load_models"}

\* the passes run only on a loaded document and a loaded catalog source; a
\* run whose load failed has returned False, printed nothing but the
\* failure, and left the document in memory and the file as loaded
LoadsGuardPasses ==
  /\ PastLoads =>
       /\ loaded.apply # NoneDoc
       /\ openrouter_models = disk_txt
       /\ disk_txt # << >>
  /\ (prog = "apply" /\ LoadFails) => config \in {NoneDoc, loaded.apply}
  /\ ("apply" \in ran /\ LoadFails) =>
       /\ ret.apply = "False"
       /\ disk_yaml = loaded.apply
       /\ \A n \in 1..Len(out.apply) : out.apply[n].kind = "load_failed"
  /\ PassesDone =>
       /\ \E n \in 1..Len(out.apply) : out.apply[n].kind = "summary"
       /\ \/ no_custom_endpoints(config)
          \/ e = Len(config.endpoints.custom) + 1

\* the file changes in one step only: the save of a run past both loads and
\* both passes, after which the run is over
WriteOnlyAtSave ==
  disk_yaml' # disk_yaml =>
    /\ PassesDone
    /\ ~LoadFails
    /\ "apply" \notin ran
    /\ "apply" \in ran'

\* C11: in the apply run a failed load of the configuration document or of
\* the catalog source ends the run as failed before any resolver is called,
\* with the document in memory not mutated and the file not written; the
\* one write of the file happens only after both loads succeeded and both
\* passes finished.
C11_LoadFailureAborts == []LoadsGuardPasses /\ [][WriteOnlyAtSave]_vars

\* the document was loaded, the catalog source was not, and the run has
\* returned False
C11_Witness ==
  /\ "apply" \in ran
  /\ loaded.apply # NoneDoc
  /\ disk_txt = << >>
  /\ ret.apply = "False"
  /\ disk_yaml = loaded.apply

\* ------------------------------------------------------------------------
\* Properties of the parser (SpecParse)
\* ------------------------------------------------------------------------

\* a string that starts and ends with '---'
IsDelimiter(item) == startswith(item, DASHES) /\ endswith(item, DASHES)

\* the position of the last delimiter before position k, 0 if there is none
LastDelimiter(src, k) ==
  LET ds == { d \in 1..(k - 1) : IsDelimiter(src[d]) }
  IN  IF ds = {} THEN 0 ELSE CHOOSE d \in ds : \A x \in ds : x <= d

\* the label of the category position k lies in; << >> if it lies in none
LabelAt(src, k) ==
  IF LastDelimiter(src, k) = 0 THEN << >>
  ELSE strip(src[LastDelimiter(src, k)], "-")

\* the strings of src at the positions K, in source order
Pick(src, K) ==
  LET idx == SelectSeq([k \in 1..Len(src) |-> k], LAMBDA k : k \in K)
  IN  [n \in 1..Len(idx) |-> src[idx[n]]]

\* the labels of the delimiters of src
Labels(src) ==
  { strip(src[d], "-") : d \in { k \in 1..Len(src) : IsDelimiter(src[k]) } }

\* the non-delimiter strings that follow a delimiter labelled L
Following(src, L) ==
  Pick(src, { k \in 1..Len(src) :
                /\ ~IsDelimiter(src[k])
                /\ LastDelimiter(src, k) # 0
                /\ LabelAt(src, k) = L })

\* the same, without the strings that start with '---' and without those
\* after a delimiter whose label is empty
FollowingOpen(src, L) ==
  Pick(src, { k \in 1..Len(src) :
                /\ ~startswith(src[k], DASHES)
                /\ L # << >>
                /\ LabelAt(src, k) = L })

\* C12 as stated: the catalog maps each category label to exactly the
\* non-delimiter strings that follow its delimiter, in source order;
\* delimiters are never entries and strings before the first delimiter are
\* dropped.
C12_Parser_AsStated ==
  op = "parse" =>
    /\ \A c \in 1..Len(catalog) : catalog[c].name \in Labels(disk_txt)
    /\ \A L \in Labels(disk_txt) :
          /\ Following(disk_txt, L) # << >> =>
               \E c \in 1..Len(catalog) : catalog[c].name = L
          /\ \A c \in 1..Len(catalog) :
                catalog[c].name = L => catalog[c].models = Following(disk_txt, L)

\* C12: the catalog maps each non-empty category label to exactly the
\* strings not starting with '---' that follow a delimiter with that label,
\* in source order; delimiters are never entries, and strings before the
\* first delimiter, strings that start with '---' without ending with it,
\* and strings after a delimiter with an empty label are dropped; a label
\* with no entry is no key of the catalog.
C12_Parser ==
  op = "parse" =>
    /\ \A c \in 1..Len(catalog) :
          /\ catalog[c].name \in Labels(disk_txt) \ { << >> }
          /\ catalog[c].models # << >>
          /\ \A d \in 1..Len(catalog) : catalog[d].name = catalog[c].name => d = c
    /\ \A L \in Labels(disk_txt) :
          /\ FollowingOpen(disk_txt, L) # << >> =>
               \E c \in 1..Len(catalog) : catalog[c].name = L
          /\ \A c \in 1..Len(catalog) :
                catalog[c].name = L => catalog[c].models = FollowingOpen(disk_txt, L)

\* an entry before the first section, one in it, and a string that only
\* starts with '---': the section holds the one entry
C12_Witness ==
  /\ op = "parse"
  /\ disk_txt = << ENTRY_A, TEXT, ENTRY_B, HALF >>
  /\ catalog = << [name |-> << "T", "e", "x", "t" >>, models |-> << ENTRY_B >>] >>

\* after both passes every reference of the document that was changed holds
\* an entry of the catalog, and every replacement printed differs from the
\* reference it replaces
WrittenAreEntries ==
  PassesDone =>
    LET cats   == extract_models_by_category(openrouter_models)
        before == WithSpecList(loaded.apply)
    IN  /\ \A n \in 1..Len(before.modelSpecs.list) :
              LET b == before.modelSpecs.list[n]
                  a == config.modelSpecs.list[n]
              IN  ("preset" \in DOMAIN b /\ "model" \in DOMAIN b.preset
                     /\ a.preset.model # b.preset.model) =>
                    a.preset.model \in Entries(cats)
        /\ ("endpoints" \in DOMAIN before /\ "custom" \in DOMAIN before.endpoints) =>
              \A n \in 1..Len(before.endpoints.custom) :
                 LET ep == before.endpoints.custom[n]
                 IN  ("models" \in DOMAIN ep /\ "default" \in DOMAIN ep.models) =>
                       \A k \in 1..Len(ep.models.default) :
                          config.endpoints.custom[n].models.default[k]
                            \in Entries(cats) \cup { ep.models.default[k] }
        /\ \A n \in 1..Len(out.apply) :
              out.apply[n].kind \in {"replace", "update"} =>
                /\ out.apply[n].to \in Entries(cats)
                /\ out.apply[n].to # out.apply[n].model

=============================================================================
